---- MODULE Spec2Model ----
(***************************************************************************)
(* Identity resolution and rating classification of the Kramnik anomaly    *)
(* method scripts: the name normalizers, the resolver cascade over the     *)
(* FIDE index, the band classifiers and the performance rating.            *)
(*                                                                         *)
(* Python str values are TLA+ strings; a dict is a sequence of             *)
(* [key, rating] records in insertion order with pairwise distinct keys.   *)
(***************************************************************************)
EXTENDS Integers, Sequences, FiniteSets, TLC

(***************************************************************************)
(* Python str primitives                                                   *)
(***************************************************************************)
None == "<None>"

UPPER == "ABCDEFGHIJKLMNOPQRSTUVWXYZ"
LOWER == "abcdefghijklmnopqrstuvwxyz"
DIGITS == "0123456789"

CharAt(s, i) == SubSeq(s, i, i)

Drop(s, k) == SubSeq(s, k + 1, Len(s))

Take(s, k) == SubSeq(s, 1, k)

CharIn(c, alphabet) == \E i \in 1..Len(alphabet) : CharAt(alphabet, i) = c

IsSpace(c) == c \in {" ", "\n", "\t", "\r"}

\* \w of the re module on ASCII text
IsWordChar(c) == CharIn(c, LOWER) \/ CharIn(c, UPPER) \/ CharIn(c, DIGITS) \/ c = "_"

LowerChar(c) ==
    IF CharIn(c, UPPER)
    THEN CharAt(LOWER, CHOOSE i \in 1..Len(UPPER) : CharAt(UPPER, i) = c)
    ELSE c

\* s.lower(), by halves
RECURSIVE LowerRange(_, _, _)
LowerRange(s, lo, hi) ==
    IF lo > hi THEN ""
    ELSE IF lo = hi THEN LowerChar(CharAt(s, lo))
    ELSE LET mid == (lo + hi) \div 2
         IN  LowerRange(s, lo, mid) \o LowerRange(s, mid + 1, hi)

str_lower(s) == LowerRange(s, 1, Len(s))

NonSpaceAt(s) == {i \in 1..Len(s) : ~IsSpace(CharAt(s, i))}

SetMin(S) == CHOOSE i \in S : \A j \in S : i <= j

SetMax(S) == CHOOSE i \in S : \A j \in S : i >= j

\* s.strip()
str_strip(s) ==
    LET P     == NonSpaceAt(s)
        first == CHOOSE i \in P : \A j \in 1..(i - 1) : j \notin P
        last  == CHOOSE i \in P : \A j \in (i + 1)..Len(s) : j \notin P
    IN  IF P = {} THEN "" ELSE SubSeq(s, first, last)

StartsWith(s, t) == Len(t) <= Len(s) /\ Take(s, Len(t)) = t

\* Python's `t in s`
Contains(s, t) == \E i \in 0..(Len(s) - Len(t)) : SubSeq(s, i + 1, i + Len(t)) = t

\* the positions of the separator, with 0 and Len(s) + 1 as the two ends
SepAt(s, sep) == {i \in 1..Len(s) : CharAt(s, i) = sep} \cup {0, Len(s) + 1}

NthOf(S, n) == CHOOSE p \in S : Cardinality({q \in S : q < p}) = n - 1

\* s.split(sep) for a one-character separator: empty fields are kept
str_split_sep(s, sep) ==
    LET P == SepAt(s, sep)
    IN  [j \in 1..(Cardinality(P) - 1) |-> SubSeq(s, NthOf(P, j) + 1, NthOf(P, j + 1) - 1)]

\* s.split(): runs of whitespace separate, no empty fields
str_split(s) == SelectSeq(str_split_sep(s, " "), LAMBDA t : t # "")

RECURSIVE str_join(_, _)
str_join(parts, sep) ==
    IF Len(parts) = 0 THEN ""
    ELSE IF Len(parts) = 1 THEN parts[1]
    ELSE parts[1] \o sep \o str_join(Tail(parts), sep)

(***************************************************************************)
(* re.sub of the two patterns normalize_name_for_matching uses.  Neither   *)
(* pattern can match at two overlapping places, so re.sub deletes every    *)
(* place where the pattern matches.                                        *)
(***************************************************************************)
\* \b holds between positions k and k+1 of s (0 <= k <= Len(s))
WordBoundary(s, k) ==
    LET before == k >= 1 /\ IsWordChar(CharAt(s, k))
        after  == k < Len(s) /\ IsWordChar(CharAt(s, k + 1))
    IN  before # after

\* \b<title>\b matches s at offset k
TitleMatchAt(s, title, k) ==
    /\ k >= 0
    /\ k + Len(title) <= Len(s)
    /\ SubSeq(s, k + 1, k + Len(title)) = title
    /\ WordBoundary(s, k)
    /\ WordBoundary(s, k + Len(title))

TitleCovers(s, title, i) == \E k \in (i - Len(title))..(i - 1) : TitleMatchAt(s, title, k)

RECURSIVE TitleCut(_, _, _, _)
TitleCut(s, title, lo, hi) ==
    IF lo > hi THEN ""
    ELSE IF lo = hi THEN (IF TitleCovers(s, title, lo) THEN "" ELSE CharAt(s, lo))
    ELSE LET mid == (lo + hi) \div 2
         IN  TitleCut(s, title, lo, mid) \o TitleCut(s, title, mid + 1, hi)

\* re.sub(r'\b' + re.escape(title) + r'\b', '', s)
re_sub_title(title, s) == TitleCut(s, title, 1, Len(s))

AllLower(s) == \A i \in 1..Len(s) : CharIn(CharAt(s, i), LOWER)

\* length of the match of \([a-z]{2,3}\) at offset k of s, 0 if none
CountryMatchLen(s, k) ==
    IF k >= 0 /\ k + 1 <= Len(s) /\ CharAt(s, k + 1) = "("
    THEN IF k + 5 <= Len(s) /\ AllLower(SubSeq(s, k + 2, k + 4)) /\ CharAt(s, k + 5) = ")"
         THEN 5
         ELSE IF k + 4 <= Len(s) /\ AllLower(SubSeq(s, k + 2, k + 3)) /\ CharAt(s, k + 4) = ")"
              THEN 4
              ELSE 0
    ELSE 0

CountryCovers(s, i) == \E k \in (i - 5)..(i - 1) : CountryMatchLen(s, k) >= i - k

RECURSIVE CountryCut(_, _, _)
CountryCut(s, lo, hi) ==
    IF lo > hi THEN ""
    ELSE IF lo = hi THEN (IF CountryCovers(s, lo) THEN "" ELSE CharAt(s, lo))
    ELSE LET mid == (lo + hi) \div 2
         IN  CountryCut(s, lo, mid) \o CountryCut(s, mid + 1, hi)

\* re.sub(r'\([a-z]{2,3}\)', '', s)
re_sub_country(s) == CountryCut(s, 1, Len(s))

(***************************************************************************)
(* normalize_name_for_matching                                             *)
(***************************************************************************)
titles == << "gm", "im", "fm", "cm", "wgm", "wim", "wfm", "wcm", "grandmaster",
             "international master", "fide master", "candidate master" >>

RECURSIVE StripTitles(_, _)
StripTitles(name, i) ==
    IF i > Len(titles) THEN name
    ELSE StripTitles(str_strip(re_sub_title(titles[i], name)), i + 1)

normalize_name_for_matching(name) ==
    IF name = "" THEN ""
    ELSE LET lowered  == str_strip(str_lower(name))
             untitled == StripTitles(lowered, 1)
             nocode   == str_strip(re_sub_country(untitled))
         IN  str_join(str_split(nocode), " ")

(***************************************************************************)
(* Optional values and the FIDE index (a dict in insertion order)          *)
(***************************************************************************)
Absent == << >>

Some(v) == << v >>

HasKey(m, k) == \E i \in 1..Len(m) : m[i].key = k

Lookup(m, k) == m[CHOOSE i \in 1..Len(m) : m[i].key = k].rating

Keys(m) == {m[i].key : i \in 1..Len(m)}

(***************************************************************************)
(* What fetch_json hands the resolver for a profile URL: nothing, or the   *)
(* decoded JSON body.  shape is the body's type; name_kind and             *)
(* country_kind say what the "name" and "country" members hold.            *)
(***************************************************************************)
NoProfile == [shape |-> "none", name_kind |-> "missing", name |-> "", country_kind |-> "missing"]

EmptyDict == [shape |-> "empty_dict", name_kind |-> "missing", name |-> "", country_kind |-> "missing"]

JsonList == [shape |-> "list", name_kind |-> "missing", name |-> "", country_kind |-> "missing"]

NamedProfile(n) == [shape |-> "dict", name_kind |-> "str", name |-> n, country_kind |-> "str"]

NamelessProfile == [shape |-> "dict", name_kind |-> "missing", name |-> "", country_kind |-> "str"]

NullNameProfile == [shape |-> "dict", name_kind |-> "null", name |-> "", country_kind |-> "missing"]

NumberNameProfile == [shape |-> "dict", name_kind |-> "number", name |-> "", country_kind |-> "missing"]

NumberCountryProfile(n) == [shape |-> "dict", name_kind |-> "str", name |-> n, country_kind |-> "number"]

\* `not profile_data`
Falsy(profile) == profile.shape \in {"none", "empty_dict"}

\* player_name = profile_data.get("name", ""), as the pair (kind, text)
NoName == [kind |-> "none", str |-> ""]

PlayerName(profile) ==
    CASE profile.name_kind = "missing" -> [kind |-> "str", str |-> ""]
      [] profile.name_kind = "null"    -> NoName
      [] profile.name_kind = "number"  -> [kind |-> "number", str |-> ""]
      [] OTHER                         -> [kind |-> "str", str |-> profile.name]

\* `if player_name:`
Truthy(pn) == pn.kind = "number" \/ (pn.kind = "str" /\ pn.str # "")

(***************************************************************************)
(* The registry rows, handles and display names the lookups range over     *)
(***************************************************************************)
MaxIndex == 2

\* registry rows as the parser keys them, with their blitz ratings
RegistryPool ==
    { [key |-> "hikaru",             rating |-> 2850],
      [key |-> "magnus_carlsen",     rating |-> 2900],
      [key |-> "carlsen_magnus",     rating |-> 2700],
      [key |-> "oleksandr_petrenko", rating |-> 2600],
      [key |-> "alexa_ivanov",       rating |-> 2600],
      [key |-> "alexander_ivanova",  rating |-> 2550],
      [key |-> "aleksandr_shimanov", rating |-> 2650],
      [key |-> "oleksandr_shimanov", rating |-> 2650] }

\* the index is saved and loaded sorted by rating, highest first
IsIndex(m) ==
    /\ \A i, j \in 1..Len(m) : i # j => m[i].key # m[j].key
    /\ \A i \in 1..(Len(m) - 1) : m[i].rating >= m[i + 1].rating

Indexes == {m \in UNION {[1..n -> RegistryPool] : n \in 0..MaxIndex} : IsIndex(m)}

Handles == {"Hikaru", "dummyhandle"}

NamePool ==
    { "Magnus Carlsen", "GM Magnus Carlsen (NOR)", "Magnus",
      "Oleksandr Ivanov", "Alexander Ivanov", "Oleksandr Shimanov", "Aleksandr Shimanov" }

\* what the profile provider may answer; NoProfile is a failed request
Responses ==
    {NoProfile, EmptyDict, JsonList, NamelessProfile, NullNameProfile, NumberNameProfile,
     NamedProfile(""), NumberCountryProfile("Magnus Carlsen")}
    \cup {NamedProfile(n) : n \in NamePool}

(***************************************************************************)
(* The pure string functions, tabulated once over the pools                *)
(***************************************************************************)
PoolKeys == {e.key : e \in RegistryPool}

NamePartsTable == [n \in NamePool |-> str_split(normalize_name_for_matching(n))]

\* normalize_name_for_matching(player_name).split()
NameParts(n) ==
    IF n \in NamePool THEN NamePartsTable[n] ELSE str_split(normalize_name_for_matching(n))

KeyPartsTable == [k \in PoolKeys |-> str_split_sep(k, "_")]

\* fide_name.split('_')
KeyParts(k) == IF k \in PoolKeys THEN KeyPartsTable[k] ELSE str_split_sep(k, "_")

HandleTable == [h \in Handles |-> str_lower(h)]

\* username.lower()
HandleKey(h) == IF h \in Handles THEN HandleTable[h] ELSE str_lower(h)

QueryTokens == UNION {{NamePartsTable[n][i] : i \in 1..Len(NamePartsTable[n])} : n \in NamePool}

KeyTokens == UNION {{KeyPartsTable[k][i] : i \in 1..Len(KeyPartsTable[k])} : k \in PoolKeys}

(***************************************************************************)
(* The matching strategies of the resolver                                 *)
(***************************************************************************)
Last(seq) == seq[Len(seq)]

\* f"{a}_{b}"
NameKey(a, b) == a \o "_" \o b

\* the token test with only the query token looked for inside the registry token
TokenMatchOneWay(q, f) == q = f \/ (Len(q) > 4 /\ Len(f) > 4 /\ Contains(f, q))

\* first_match / last_match of the strict partial matching
TokenMatch(q, f) ==
    \/ q = f
    \/ (Len(q) > 4 /\ Len(f) > 4 /\ (Contains(f, q) \/ Contains(q, f)))

TokenMatchTable == [q \in QueryTokens, f \in KeyTokens |-> TokenMatch(q, f)]

TokenMatches(q, f) ==
    IF q \in QueryTokens /\ f \in KeyTokens THEN TokenMatchTable[q, f] ELSE TokenMatch(q, f)

\* an entry accepted on one matching token alone
PartialEntryMatchEither(first_name, last_name, fide_name) ==
    LET fide_parts == KeyParts(fide_name)
    IN  /\ Len(fide_parts) >= 2
        /\ (TokenMatches(first_name, fide_parts[1]) \/ TokenMatches(last_name, Last(fide_parts)))

PartialEntryMatch(first_name, last_name, fide_name) ==
    LET fide_parts == KeyParts(fide_name)
    IN  /\ Len(fide_parts) >= 2
        /\ TokenMatches(first_name, fide_parts[1])
        /\ TokenMatches(last_name, Last(fide_parts))

PartialHits(name_parts, m) ==
    IF Len(name_parts) = 2
    THEN {i \in 1..Len(m) : PartialEntryMatch(name_parts[1], name_parts[2], m[i].key)}
    ELSE {}

\* first_variations
FirstVariations(first_name) ==
    CASE first_name = "oleksandr" -> {first_name, "olexandr", "alexander", "aleksandr"}
      [] first_name = "aleksei"   -> {first_name, "alexey", "alexei"}
      [] first_name = "vladimir"  -> {first_name}
      [] OTHER                    -> {first_name}

VariantEntryMatch(first_name, last_name, fide_name) ==
    LET fide_parts == KeyParts(fide_name)
    IN  /\ Len(fide_parts) >= 2
        /\ fide_parts[1] \in FirstVariations(first_name)
        /\ Last(fide_parts) = last_name

VariantHits(name_parts, m) ==
    IF Len(name_parts) >= 2
    THEN {i \in 1..Len(m) : VariantEntryMatch(name_parts[1], Last(name_parts), m[i].key)}
    ELSE {}

Outcome(rating, real_name, via) == [rating |-> rating, real_name |-> real_name, via |-> via]

Raised == Outcome(Absent, NoName, "raise")

\* the name-based strategies both entry points share, tried in the code's order
NameCascade(pn, m, with_variants) ==
    LET name_parts == NameParts(pn.str)
        direct     == NameKey(name_parts[1], Last(name_parts))
        reverse    == NameKey(Last(name_parts), name_parts[1])
    IN  IF Len(name_parts) >= 2 /\ HasKey(m, direct)
        THEN Outcome(Some(Lookup(m, direct)), pn, "direct")
        ELSE IF Len(name_parts) >= 2 /\ HasKey(m, reverse)
        THEN Outcome(Some(Lookup(m, reverse)), pn, "reverse")
        ELSE IF PartialHits(name_parts, m) # {}
        THEN Outcome(Some(m[SetMin(PartialHits(name_parts, m))].rating), pn, "partial")
        ELSE IF with_variants /\ VariantHits(name_parts, m) # {}
        THEN Outcome(Some(m[SetMin(VariantHits(name_parts, m))].rating), pn, "variant")
        ELSE Outcome(Absent, pn, "none")

\* the try block with the handle tried after the name strategies
TryResolveNameFirst(username, profile, m, with_variants) ==
    LET pn     == PlayerName(profile)
        byname == NameCascade(pn, m, with_variants)
    IN  IF Falsy(profile) THEN Outcome(Absent, NoName, "no_profile")
        ELSE IF profile.shape # "dict" THEN Raised
        ELSE IF profile.country_kind = "number" THEN Raised
        ELSE IF pn.kind = "number" THEN Raised
        ELSE IF Truthy(pn) /\ byname.via # "none" THEN byname
        ELSE IF HasKey(m, HandleKey(username))
        THEN Outcome(Some(Lookup(m, HandleKey(username))), pn, "exact")
        ELSE Outcome(Absent, pn, "none")

\* the body of the try block of either entry point
TryResolve(username, profile, m, with_variants) ==
    LET pn == PlayerName(profile)
    IN  IF Falsy(profile) THEN Outcome(Absent, NoName, "no_profile")
        ELSE IF profile.shape # "dict" THEN Raised
        ELSE IF profile.country_kind = "number" THEN Raised
        ELSE IF HasKey(m, HandleKey(username))
        THEN Outcome(Some(Lookup(m, HandleKey(username))), pn, "exact")
        ELSE IF ~Truthy(pn) THEN Outcome(Absent, pn, "none")
        ELSE IF pn.kind = "number" THEN Raised
        ELSE NameCascade(pn, m, with_variants)

\* no except clause: the exception leaves the function
ExceptMissing(out) == out

\* `except Exception`: return None, None
ExceptToNone(out) == IF out.via = "raise" THEN Outcome(Absent, NoName, "error") ELSE out

get_fide_rating_for_player_with_name(username, profile, m) ==
    ExceptToNone(TryResolve(username, profile, m, TRUE))

\* a lookup that tries the display name before the handle
find_fide_rating_name_first(username, profile, m) ==
    LET out == ExceptToNone(TryResolveNameFirst(username, profile, m, FALSE))
    IN  Outcome(out.rating, NoName, out.via)

\* returns the rating alone
find_fide_rating_for_player(username, profile, m) ==
    LET out == ExceptToNone(TryResolve(username, profile, m, FALSE))
    IN  Outcome(out.rating, NoName, out.via)

(***************************************************************************)
(* Band classifiers.  A rating is Absent (None, NaN) or Some(number); a    *)
(* band is Absent (None) or Some(label).                                   *)
(***************************************************************************)
\* a classifier that puts whatever is below its thresholds in the lowest band
assign_band_defaulting(r, use_fide) ==
    IF r # Absent /\ r[1] >= 2800 THEN Some("800+")
    ELSE IF r # Absent /\ r[1] >= 2700 THEN Some("700")
    ELSE IF r # Absent /\ r[1] >= 2600 THEN Some("600")
    ELSE Some("500")

\* assign_band_from_rating of kramnik_anomaly_method.py
assign_band_from_rating(r, use_fide) ==
    IF r = Absent THEN Absent
    ELSE IF use_fide
         THEN IF r[1] >= 2800 THEN Some("800+")
              ELSE IF r[1] >= 2700 THEN Some("700")
              ELSE IF r[1] >= 2600 THEN Some("600")
              ELSE IF r[1] >= 2500 THEN Some("500")
              ELSE Absent
         ELSE IF r[1] >= 2800 THEN Some("800+")
              ELSE IF r[1] >= 2700 THEN Some("700")
              ELSE IF r[1] >= 2600 THEN Some("600")
              ELSE Absent

\* assign_band_from_rating of recompute_bands.py: always a label; every
\* comparison with NaN is false
recompute_assign_band_from_rating(r) ==
    IF r # Absent /\ r[1] >= 2800 THEN Some("800+")
    ELSE IF r # Absent /\ r[1] >= 2700 THEN Some("700")
    ELSE IF r # Absent /\ r[1] >= 2600 THEN Some("600")
    ELSE IF r # Absent /\ r[1] >= 2500 THEN Some("500")
    ELSE Some("below_2500")

(***************************************************************************)
(* perf_rating.  Scores are counted in half points (score2 = 2 * score).   *)
(* A result is NaN or the number avg + const + 400 * log10(num / den),     *)
(* kept as its four parts: the logarithm is 0 exactly when num = den.      *)
(***************************************************************************)
NaN == [kind |-> "nan", avg |-> 0, const |-> 0, log_num |-> 1, log_den |-> 1]

Number(avg, const, num, den) ==
    [kind |-> "number", avg |-> avg, const |-> const, log_num |-> num, log_den |-> den]

\* perf_rating with the score tested before the game count
perf_rating_score_first(score2, n, avg_opp) ==
    IF score2 <= 0 THEN Number(avg_opp, -800, 1, 1)
    ELSE IF n = 0 THEN NaN
    ELSE IF score2 >= 2 * n THEN Number(avg_opp, 800, 1, 1)
    ELSE Number(avg_opp, 0, score2, 2 * n - score2)

\* perf_rating of kramnik_anomaly_method.py
perf_rating(score2, n, avg_opp) ==
    IF n = 0 THEN NaN
    ELSE IF score2 <= 0 THEN Number(avg_opp, -800, 1, 1)
    ELSE IF score2 >= 2 * n THEN Number(avg_opp, 800, 1, 1)
    ELSE Number(avg_opp, 0, score2, 2 * n - score2)

\* perf_rating of recompute_bands.py
recompute_perf_rating(score2, n, avg_opp) ==
    IF n = 0 THEN NaN
    ELSE IF score2 <= 0 THEN Number(avg_opp, -800, 1, 1)
    ELSE IF score2 >= 2 * n THEN Number(avg_opp, 800, 1, 1)
    ELSE Number(avg_opp, 0, score2, 2 * n - score2)

(***************************************************************************)
(* The calls of the classifiers and of perf_rating the model makes         *)
(***************************************************************************)
\* samples of up to 51 games: from 51 games on, a score of n - 0.5 has
\* score/(n - score) above 100
MaxN == 51

ClassifyRatings == {Absent} \cup {Some(x) : x \in (2450..2850) \cup {-2800, -1, 0}}

AvgPool == {2600, 2755}

Call(fn, r, use_fide, score2, n, avg_opp) ==
    [fn |-> fn, r |-> r, use_fide |-> use_fide, score2 |-> score2, n |-> n, avg_opp |-> avg_opp]

ClassifyCalls ==
    {Call("assign_band_from_rating", r, f, 0, 0, 0) : r \in ClassifyRatings, f \in BOOLEAN}
    \cup {Call("recompute.assign_band_from_rating", r, TRUE, 0, 0, 0) : r \in ClassifyRatings}

PerfInputs == {<<s, n>> \in (-1..(2 * MaxN + 1)) \X (0..MaxN) : s <= 2 * n + 1}

PerfCalls ==
    {Call(fn, Absent, TRUE, x[1], x[2], a) :
        fn \in {"perf_rating", "recompute.perf_rating"}, x \in PerfInputs, a \in AvgPool}

NotReturned == [done |-> FALSE, band |-> Absent, perf |-> NaN]

(***************************************************************************)
(* The banding and aggregation of main (kramnik_anomaly_method.py) and of  *)
(* main (recompute_bands.py)                                               *)
(***************************************************************************)
MaxRows == 2

BandOrder == << "500", "600", "700", "800+" >>

\* order.get(band, 99)
Rank(band) ==
    IF \E k \in 1..Len(BandOrder) : BandOrder[k] = band
    THEN (CHOOSE k \in 1..Len(BandOrder) : BandOrder[k] = band) - 1
    ELSE 99

RowRatings == {Absent, Some(-50), Some(2499), Some(2500), Some(2650), Some(2750), Some(2800)}

\* a game of the sample: the rating its band comes from, and its result
GameRows == {[rating |-> r, result2 |-> s, games |-> 1, avg_opp |-> r, band |-> Absent] :
                r \in RowRatings, s \in {0, 1, 2}}

\* a row of the opponent breakdown CSV
OpponentRows ==
    {[rating |-> r, result2 |-> x[2], games |-> x[1],
      avg_opp |-> IF r = Absent \/ r[1] < 0 THEN Some(2600) ELSE r, band |-> Absent] :
        r \in RowRatings, x \in {<<1, 0>>, <<1, 2>>, <<2, 1>>, <<2, 3>>}}

Frames(rows) == UNION {[1..n -> rows] : n \in 0..MaxRows}

RECURSIVE Sum(_)
Sum(column) == IF column = << >> THEN 0 ELSE Head(column) + Sum(Tail(column))

\* the columns the aggregation sums
Games(rows) == [k \in 1..Len(rows) |-> rows[k].games]

Results(rows) == [k \in 1..Len(rows) |-> rows[k].result2]

Ratings(rows) == [k \in 1..Len(rows) |-> rows[k].rating[1]]

WeightedOpp(rows) == [k \in 1..Len(rows) |-> rows[k].avg_opp[1] * rows[k].games]

\* an insertion that compares the ranks the wrong way round
RECURSIVE InsertByRankDescending(_, _)
InsertByRankDescending(sorted, b) ==
    IF sorted = << >> THEN << b >>
    ELSE IF Rank(b.band) > Rank(Head(sorted).band) THEN << b >> \o sorted
    ELSE << Head(sorted) >> \o InsertByRankDescending(Tail(sorted), b)

\* sorted(out, key=...): a stable insertion sort
RECURSIVE InsertByRank(_, _)
InsertByRank(sorted, b) ==
    IF sorted = << >> THEN << b >>
    ELSE IF Rank(b.band) < Rank(Head(sorted).band) THEN << b >> \o sorted
    ELSE << Head(sorted) >> \o InsertByRank(Tail(sorted), b)

RECURSIVE SortedByRank(_)
SortedByRank(out) ==
    IF out = << >> THEN << >>
    ELSE InsertByRank(SortedByRank(SubSeq(out, 1, Len(out) - 1)), out[Len(out)])

\* a grouping that keeps one game per band
InBandFirst(rows, band) ==
    LET sub == SelectSeq(rows, LAMBDA row : row.band = Some(band))
    IN  IF sub = << >> THEN << >> ELSE << Head(sub) >>

InBand(rows, band) == SelectSeq(rows, LAMBDA row : row.band = Some(band))

\* the keys df.groupby("band") iterates over: the bands present, sorted; rows
\* whose band is None belong to no group
GroupKeys(rows) == SelectSeq(BandOrder, LAMBDA band : InBand(rows, band) # << >>)

Mean(total, n) == << total, n >>

Bucket(band, games, score2, opp_total, perf) ==
    [band |-> band, games |-> games, score2 |-> score2, avg_opp |-> Mean(opp_total, games),
     perf |-> perf]

\* summarize_by_band; avg_opp and perf are kept unrounded
summarize_by_band(rows) ==
    LET row_of(band) ==
            LET sub     == InBand(rows, band)
                n       == Len(sub)
                score2  == Sum(Results(sub))
                total   == Sum(Ratings(sub))
            IN  Bucket(band, n, score2, total, perf_rating(score2, n, Mean(total, n)))
        keys == GroupKeys(rows)
        out  == [k \in 1..Len(keys) |-> row_of(keys[k])]
    IN  SortedByRank(out)

\* the band loop of recompute_bands.main
band_performance(rows) ==
    LET row_of(band) ==
            LET band_data == InBand(rows, band)
                n         == Sum(Games(band_data))
                score2    == Sum(Results(band_data))
                total     == Sum(WeightedOpp(band_data))
            IN  Bucket(band, n, score2, total, recompute_perf_rating(score2, n, Mean(total, n)))
        keys == SelectSeq(BandOrder, LAMBDA band : Len(InBand(rows, band)) > 0)
        out  == [k \in 1..Len(keys) |-> row_of(keys[k])]
    IN  SortedByRank(out)

\* the overall figures of recompute_bands.main
overall_performance(rows) ==
    LET total_games  == Sum(Games(rows))
        total_score2 == Sum(Results(rows))
        total        == Sum(WeightedOpp(rows))
    IN  Bucket("overall", total_games, total_score2, total,
               recompute_perf_rating(total_score2, total_games, Mean(total, total_games)))

NoBucket == Bucket("", 0, 0, 0, NaN)

(***************************************************************************)
(* More str primitives, for the registry parser                            *)
(***************************************************************************)
\* s.find(t)
str_find(s, t) ==
    IF Contains(s, t)
    THEN SetMin({i \in 0..(Len(s) - Len(t)) : SubSeq(s, i + 1, i + Len(t)) = t})
    ELSE -1

\* where a slice bound falls in a string of length n
SliceBound(k, n) == IF k < 0 THEN (IF k + n < 0 THEN 0 ELSE k + n) ELSE (IF k > n THEN n ELSE k)

\* s[a:b]
Slice(s, a, b) ==
    LET lo == SliceBound(a, Len(s))
        hi == SliceBound(b, Len(s))
    IN  IF lo >= hi THEN "" ELSE SubSeq(s, lo + 1, hi)

\* s.isdigit() on ASCII text
str_isdigit(s) == s # "" /\ \A i \in 1..Len(s) : CharIn(CharAt(s, i), DIGITS)

DigitValue(c) == (CHOOSE i \in 1..Len(DIGITS) : CharAt(DIGITS, i) = c) - 1

\* int(s) for a string of digits
RECURSIVE int(_)
int(s) == IF s = "" THEN 0 ELSE 10 * int(Take(s, Len(s) - 1)) + DigitValue(CharAt(s, Len(s)))

\* s.replace(c, r) for a one-character c, by halves
RECURSIVE ReplaceRange(_, _, _, _, _)
ReplaceRange(s, c, r, lo, hi) ==
    IF lo > hi THEN ""
    ELSE IF lo = hi THEN (IF CharAt(s, lo) = c THEN r ELSE CharAt(s, lo))
    ELSE LET mid == (lo + hi) \div 2
         IN  ReplaceRange(s, c, r, lo, mid) \o ReplaceRange(s, c, r, mid + 1, hi)

str_replace(s, c, r) == ReplaceRange(s, c, r, 1, Len(s))

(***************************************************************************)
(* normalize_fide_name (the same function in kramnik_anomaly_method.py,    *)
(* create_fide_2500.py and debug_parser.py)                                *)
(***************************************************************************)
NameFallback(name) == str_replace(str_replace(str_lower(name), " ", "_"), ",", "")

normalize_fide_name(name) ==
    IF name = "" \/ name = "-" \/ name = "-, -" THEN ""
    ELSE LET parts == str_split_sep(name, ",")
         IN  IF Len(parts) >= 2
             THEN LET last_name   == str_strip(parts[1])
                      first_parts == str_split(str_strip(parts[2]))
                      first_name  == IF first_parts # << >> THEN first_parts[1] ELSE ""
                  IN  IF first_name # "" /\ last_name # ""
                      THEN str_lower(first_name) \o "_" \o str_lower(last_name)
                      ELSE NameFallback(name)
             ELSE NameFallback(name)

(***************************************************************************)
(* parse_fide_ratings_data (kramnik_anomaly_method.py), of which           *)
(* parse_fide_ratings_correct (create_fide_2500.py) is a copy              *)
(***************************************************************************)
\* lines = data.strip().split('\n')
SplitLines(text) == str_split_sep(str_strip(text), "\n")

\* "ID Number" in line and "Name" in line
HeaderTest(line) == Contains(line, "ID Number") /\ Contains(line, "Name")

Row(kind, name, key, rating) == [kind |-> kind, name |-> name, key |-> key, rating |-> rating]

\* a loop body without the test against the minimum rating
RowOutcomeAnyRating(line, header, minimum) ==
    LET name_start  == str_find(header, "Name")
        fed_start   == str_find(header, "Fed")
        brtng_start == str_find(header, "BRtng")
        name        == str_strip(Slice(line, name_start, fed_start))
        brtng_str   == str_strip(Slice(line, brtng_start, brtng_start + 5))
        key         == normalize_fide_name(name)
    IN  IF str_strip(line) = "" THEN Row("blank", "", "", 0)
        ELSE IF ~str_isdigit(str_strip(Slice(line, 0, 10))) THEN Row("no_id", "", "", 0)
        ELSE IF ~(name_start < Len(line) /\ fed_start < Len(line)) THEN Row("short", "", "", 0)
        ELSE IF name = "-" \/ name = "-, -" \/ name = "" THEN Row("no_name", name, "", 0)
        ELSE IF ~(brtng_start < Len(line)) THEN Row("no_rating_column", name, "", 0)
        ELSE IF ~str_isdigit(brtng_str) THEN Row("rating_not_digits", name, "", 0)
        ELSE IF key = "" THEN Row("empty_key", name, "", int(brtng_str))
        ELSE Row("accepted", name, key, int(brtng_str))

\* what the loop body does with one line: the statement it leaves by and, for
\* an accepted row, the key and the rating it stores
RowOutcome(line, header, minimum) ==
    LET name_start  == str_find(header, "Name")
        fed_start   == str_find(header, "Fed")
        brtng_start == str_find(header, "BRtng")
        name        == str_strip(Slice(line, name_start, fed_start))
        brtng_str   == str_strip(Slice(line, brtng_start, brtng_start + 5))
        key         == normalize_fide_name(name)
    IN  IF str_strip(line) = "" THEN Row("blank", "", "", 0)
        ELSE IF ~str_isdigit(str_strip(Slice(line, 0, 10))) THEN Row("no_id", "", "", 0)
        ELSE IF ~(name_start < Len(line) /\ fed_start < Len(line)) THEN Row("short", "", "", 0)
        ELSE IF name = "-" \/ name = "-, -" \/ name = "" THEN Row("no_name", name, "", 0)
        ELSE IF ~(brtng_start < Len(line)) THEN Row("no_rating_column", name, "", 0)
        ELSE IF ~str_isdigit(brtng_str) THEN Row("rating_not_digits", name, "", 0)
        ELSE IF ~(int(brtng_str) >= minimum) THEN Row("below_min", name, "", int(brtng_str))
        ELSE IF key = "" THEN Row("empty_key", name, "", int(brtng_str))
        ELSE Row("accepted", name, key, int(brtng_str))

\* an assignment that keeps the rating a key already has
DictPutFirst(m, key, rating) ==
    IF HasKey(m, key) THEN m ELSE Append(m, [key |-> key, rating |-> rating])

\* fide_mapping[key] = rating
DictPut(m, key, rating) ==
    IF HasKey(m, key)
    THEN [k \in 1..Len(m) |-> IF m[k].key = key THEN [key |-> key, rating |-> rating] ELSE m[k]]
    ELSE Append(m, [key |-> key, rating |-> rating])

\* an insertion that puts the lower rating first
RECURSIVE InsertByRatingAscending(_, _)
InsertByRatingAscending(sorted, e) ==
    IF sorted = << >> THEN << e >>
    ELSE IF e.rating < Head(sorted).rating THEN << e >> \o sorted
    ELSE << Head(sorted) >> \o InsertByRatingAscending(Tail(sorted), e)

\* sorted(fide_data.items(), key=lambda x: x[1], reverse=True): stable
RECURSIVE InsertByRating(_, _)
InsertByRating(sorted, e) ==
    IF sorted = << >> THEN << e >>
    ELSE IF e.rating > Head(sorted).rating THEN << e >> \o sorted
    ELSE << Head(sorted) >> \o InsertByRating(Tail(sorted), e)

RECURSIVE SortedByRating(_)
SortedByRating(m) ==
    IF m = << >> THEN << >>
    ELSE InsertByRating(SortedByRating(SubSeq(m, 1, Len(m) - 1)), m[Len(m)])

(***************************************************************************)
(* The registry texts the model parses                                     *)
(***************************************************************************)
MaxLines == 4

HeaderLine == "ID Number Name                Fed BRtng"

NarrowHeader == "ID Number Name Fed BRtng"

RowCarlsen == "1503014   Carlsen, Magnus     NOR 2900"

RowCarlsenLower == "1503014   Carlsen, Magnus     NOR 2600"

RowNakamura == "2016192   Nakamura, Hikaru    USA 2850"

RowBadId == "50x0017   Anand, Viswanathan  IND 2750"

RowBadRating == "13300474  Aronian, Levon      USA 27o0"

RowShort == "2020009   Caruana, Fabiano"

RowNoRating == "2020009   Caruana, Fabiano    USA"

RowLow == "4100018   Kasparov, Garry     CRO 2400"

RowPlaceholder == "4101588   -                   RUS 2700"

RowComma == "4126025   ,                   RUS 2700"

WideHeader == "ID Number    Name                                    Fed Sex Tit FOA SRtng ... BRtng ..."

WideRowCarlsen == "1503014      Carlsen, Magnus                         NOR                       2900"

BlankLine == ""

\* the lines a text may hold any number of
CoreLines == {HeaderLine, RowCarlsen, RowCarlsenLower}

\* the lines a text holds at most one of
OddLines == {NarrowHeader, RowNakamura, RowBadId, RowBadRating, RowShort, RowNoRating, RowLow,
             RowPlaceholder, RowComma, BlankLine}

LineSeqs ==
    UNION {{t \in [1..n -> CoreLines \cup OddLines] :
               Cardinality({k \in 1..n : t[k] \in OddLines}) <= 1} : n \in 0..MaxLines}
    \cup {<< WideHeader, WideRowCarlsen >>, << WideHeader, BlankLine, WideRowCarlsen >>}

MinRatings == {2500, 2700}

PoolLines == CoreLines \cup OddLines \cup {WideHeader, WideRowCarlsen}

PoolHeaders == {HeaderLine, NarrowHeader, WideHeader}

\* the header test and the outcome of every line of the pool, tabulated once
HeaderTable == [l \in PoolLines |-> HeaderTest(l)]

IsHeader(line) == IF line \in PoolLines THEN HeaderTable[line] ELSE HeaderTest(line)

\* a header search that keeps the last header line of the text
FindHeaderLast(text_lines) ==
    LET at == {k \in 1..Len(text_lines) : IsHeader(text_lines[k])}
    IN  IF at = {} THEN Absent ELSE Some(text_lines[SetMax(at)])

\* the header search: the first header line, or None
FindHeader(text_lines) ==
    LET at == {k \in 1..Len(text_lines) : IsHeader(text_lines[k])}
    IN  IF at = {} THEN Absent ELSE Some(text_lines[SetMin(at)])

RowTable == [h \in PoolHeaders, l \in PoolLines, m \in MinRatings |-> RowOutcome(l, h, m)]

RowOf(line, header, minimum) ==
    IF header \in PoolHeaders /\ line \in PoolLines /\ minimum \in MinRatings
    THEN RowTable[header, line, minimum]
    ELSE RowOutcome(line, header, minimum)

(***************************************************************************)
(* The lookup loops: compute_fide_ratings_for_opponents (the pipeline) and *)
(* the loop of test_fide.py over find_fide_rating_for_player               *)
(***************************************************************************)
VARIABLES
    fide_mapping,      \* the index the lookups read
    loaded,            \* the index as download_fide_ratings returned it
    driver,            \* which loop runs: "compute" or "test"
    api_cache,         \* _api_cache, keyed by handle (one profile URL per handle)
    todo,              \* opponents the compute loop has not reached yet
    opp_fide,          \* opp_fide of compute_fide_ratings_for_opponents
    username_to_name,  \* username_to_name of the same
    printed,           \* what the test loop printed last for each player
    seen,              \* the profile fetch_json returned in each handle's last lookup
    via,               \* the return statement each handle's last lookup left by
    crashed,           \* an exception left the loop
    call,              \* a call of a classifier or of perf_rating
    ret,               \* what the call returned
    pipeline,          \* which main aggregates: "main" or "recompute"
    use_fide,          \* args.use_fide
    min_opp,           \* args.min_opp
    df,                \* the data frame of games (main) or of opponents (recompute)
    stage,             \* how far the aggregation has come
    summary,           \* the band buckets
    overall,           \* the overall bucket of recompute_bands
    data,              \* the registry text handed to the parser
    min_rating,        \* the parser's minimum rating
    parser,            \* which copy of the parser runs
    lines,             \* lines of the parser
    header_line,       \* header_line of the parser
    line_no,           \* i of the parser's second loop
    parsed,            \* fide_mapping of the parser
    processed,         \* processed of the parser
    parse_pc,          \* where the parser and what follows it stand
    index,             \* the sorted index built from the parser's result
    resolved,          \* what a lookup in that index returned
    resolved_band,     \* the band of that rating
    raw,               \* a name handed to a normalizer
    normalizer,        \* which normalizer
    once,              \* the normalizer's result
    twice,             \* the normalizer's result on its own result
    start,             \* start of month_range
    end,               \* end of month_range
    cur,               \* cur of month_range
    months,            \* months of month_range
    range_pc,          \* where month_range stands
    given,             \* a given name, one word
    surname,           \* a surname, one word
    registry_key,      \* the registry's key for 'surname, given'
    direct_key,        \* the resolver's first_last key for the display name 'given surname'
    url,               \* url of fetch_json
    retries,           \* retries of fetch_json
    use_cache,         \* use_cache of fetch_json
    attempt,           \* i of the retry loop
    requests,          \* the requests.get calls the running call has issued
    answer,            \* what the provider answered last
    fetch_pc,          \* where fetch_json stands, or the return statement it left by
    fetched,           \* what fetch_json returned
    cache_before,      \* _api_cache as the running call found it
    served,            \* the bodies the provider has served with status 200
    removed,           \* what cleanup_api_cache returned last
    calls,             \* the calls of fetch_json made so far
    account,           \* player of fetch_player_games
    since,             \* since of fetch_player_games
    until,             \* until of fetch_player_games
    verbose,           \* verbose of fetch_player_games
    include_unrated,   \* include_unrated of fetch_player_games
    provider,          \* what the game-history provider answers for each URL
    records,           \* the records fetch_player_games returned
    path,              \* the return statement fetch_player_games left by
    games_pc           \* where fetch_player_games stands

lookup_vars == << fide_mapping, loaded, driver, api_cache, todo, opp_fide, username_to_name,
                  printed, seen, via, crashed >>

call_vars == << call, ret >>

frame_vars == << pipeline, use_fide, min_opp, df, stage, summary, overall >>

parse_vars == << data, min_rating, parser, lines, header_line, line_no, parsed, processed,
                 parse_pc, index, resolved, resolved_band >>

name_vars == << raw, normalizer, once, twice >>

game_vars == << start, end, cur, months, range_pc >>

key_vars == << given, surname, registry_key, direct_key >>

fetch_vars == << url, retries, use_cache, attempt, requests, answer, fetch_pc, fetched, cache_before, served, removed, calls >>

history_vars == << account, since, until, verbose, include_unrated, provider, records, path,
                  games_pc >>

vars == << lookup_vars, call_vars, frame_vars, parse_vars, name_vars, game_vars, key_vars, fetch_vars, history_vars >>

Empty == [h \in {} |-> Absent]

\* fetch_json(profile_url): the cached body, else the provider's answer
FetchJson(cache, h, net) == IF h \in DOMAIN cache THEN cache[h] ELSE net

\* a successful body is stored; a failed request stores nothing
CacheAfter(cache, h, net) ==
    IF h \in DOMAIN cache \/ net = NoProfile THEN cache ELSE (h :> net) @@ cache

Put(f, k, v) == (k :> v) @@ f

NoLookups ==
    /\ fide_mapping = << >>
    /\ loaded = << >>
    /\ driver = "none"
    /\ api_cache = Empty
    /\ todo = {}
    /\ opp_fide = Empty
    /\ username_to_name = Empty
    /\ printed = Empty
    /\ seen = Empty
    /\ via = Empty
    /\ crashed = FALSE

NoCalls ==
    /\ call = Call("none", Absent, TRUE, 0, 0, 0)
    /\ ret = NotReturned

NoFrames ==
    /\ pipeline = "none"
    /\ use_fide = FALSE
    /\ min_opp = 0
    /\ df = << >>
    /\ stage = "none"
    /\ summary = << >>
    /\ overall = NoBucket

NoParse ==
    /\ data = ""
    /\ min_rating = 0
    /\ parser = "none"
    /\ lines = << >>
    /\ header_line = Absent
    /\ line_no = 0
    /\ parsed = << >>
    /\ processed = 0
    /\ parse_pc = "none"
    /\ index = << >>
    /\ resolved = Outcome(Absent, NoName, "pending")
    /\ resolved_band = Absent

NoNames ==
    /\ raw = ""
    /\ normalizer = "none"
    /\ once = Absent
    /\ twice = Absent

Date(y, m, d) == [year |-> y, month |-> m, day |-> d]

NoGames ==
    /\ start = Date(1, 1, 1)
    /\ end = Date(1, 1, 1)
    /\ cur = Date(1, 1, 1)
    /\ months = << >>
    /\ range_pc = "none"

NoKeys ==
    /\ given = ""
    /\ surname = ""
    /\ registry_key = Absent
    /\ direct_key = Absent

\* a response of the provider: a 200 with a JSON body, a 200 whose body is not
\* JSON, a 403, another status, or a request that raised
NoBody == [of |-> "", rev |-> 0]

Answer(kind, body) == [kind |-> kind, body |-> body]

NoAnswer == Answer("none", NoBody)

NoFetch ==
    /\ url = ""
    /\ retries = 0
    /\ use_cache = FALSE
    /\ attempt = 0
    /\ requests = 0
    /\ answer = NoAnswer
    /\ fetch_pc = "none"
    /\ fetched = Absent
    /\ cache_before = Empty
    /\ served = {}
    /\ removed = Absent
    /\ calls = 0

NoHistory ==
    /\ account = ""
    /\ since = Date(1, 1, 1)
    /\ until = Date(1, 1, 1)
    /\ verbose = FALSE
    /\ include_unrated = FALSE
    /\ provider = Empty
    /\ records = << >>
    /\ path = "none"
    /\ games_pc = "none"

Init ==
    /\ NoCalls
    /\ NoFrames
    /\ NoParse
    /\ NoNames
    /\ NoGames
    /\ NoKeys
    /\ NoFetch
    /\ NoHistory
    /\ fide_mapping \in Indexes
    /\ loaded = fide_mapping
    /\ driver \in {"compute", "test"}
    /\ api_cache = Empty
    /\ todo = Handles
    /\ opp_fide = Empty
    /\ username_to_name = Empty
    /\ printed = Empty
    /\ seen = Empty
    /\ via = Empty
    /\ crashed = FALSE

\* one iteration of the loop of compute_fide_ratings_for_opponents, the index apart
RecordOpponent(opp, net) ==
    LET profile == FetchJson(api_cache, opp, net)
        out     == get_fide_rating_for_player_with_name(opp, profile, fide_mapping)
    IN  /\ driver = "compute"
        /\ ~crashed
        /\ opp \in todo
        /\ api_cache' = CacheAfter(api_cache, opp, net)
        /\ seen' = Put(seen, opp, profile)
        /\ via' = Put(via, opp, out.via)
        /\ IF out.via = "raise"
           THEN /\ crashed' = TRUE
                /\ UNCHANGED << todo, opp_fide, username_to_name >>
           ELSE /\ crashed' = FALSE
                /\ todo' = todo \ {opp}
                /\ opp_fide' = Put(opp_fide, opp, out.rating)
                /\ username_to_name' =
                       IF Truthy(out.real_name)
                       THEN Put(username_to_name, opp, out.real_name)
                       ELSE username_to_name
        /\ UNCHANGED << loaded, driver, printed, call_vars, frame_vars, parse_vars, name_vars, game_vars, key_vars, fetch_vars, history_vars >>

\* a lookup that writes its hit back into the index under the handle
LookupOpponentMemoizing(opp, net) ==
    /\ RecordOpponent(opp, net)
    /\ fide_mapping' =
           IF opp \in DOMAIN opp_fide' /\ opp_fide'[opp] # Absent /\ ~HasKey(fide_mapping, HandleKey(opp))
           THEN <<[key |-> HandleKey(opp), rating |-> opp_fide'[opp][1]]>> \o fide_mapping
           ELSE fide_mapping

\* the lookups only read fide_mapping
LookupOpponent(opp, net) ==
    /\ RecordOpponent(opp, net)
    /\ UNCHANGED fide_mapping

\* one iteration of the lookup loop of test_fide.py; a player may come again
TestLookup(player, net) ==
    LET profile == FetchJson(api_cache, player, net)
        out     == find_fide_rating_for_player(player, profile, fide_mapping)
    IN  /\ driver = "test"
        /\ ~crashed
        /\ api_cache' = CacheAfter(api_cache, player, net)
        /\ seen' = Put(seen, player, profile)
        /\ via' = Put(via, player, out.via)
        /\ IF out.via = "raise"
           THEN crashed' = TRUE /\ UNCHANGED printed
           ELSE crashed' = FALSE /\ printed' = Put(printed, player, out.rating)
        /\ UNCHANGED << fide_mapping, loaded, driver, todo, opp_fide, username_to_name >>
        /\ UNCHANGED << call_vars, frame_vars, parse_vars, name_vars, game_vars, key_vars, fetch_vars, history_vars >>

Next ==
    \/ \E opp \in Handles, net \in Responses : LookupOpponent(opp, net)
    \/ \E player \in Handles, net \in Responses : TestLookup(player, net)

Spec == Init /\ [][Next]_vars

(***************************************************************************)
(* The classifiers and perf_rating, each applied to a drawn input          *)
(***************************************************************************)
InitCalls ==
    /\ NoLookups
    /\ NoFrames
    /\ NoParse
    /\ NoNames
    /\ NoGames
    /\ NoKeys
    /\ NoFetch
    /\ NoHistory
    /\ call \in ClassifyCalls \cup PerfCalls
    /\ ret = NotReturned

Return(band, perf) ==
    /\ ret' = [done |-> TRUE, band |-> band, perf |-> perf]
    /\ UNCHANGED << call, lookup_vars, frame_vars, parse_vars, name_vars, game_vars, key_vars, fetch_vars, history_vars >>

ClassifyMain ==
    /\ call.fn = "assign_band_from_rating"
    /\ ~ret.done
    /\ Return(assign_band_from_rating(call.r, call.use_fide), NaN)

ClassifyRecompute ==
    /\ call.fn = "recompute.assign_band_from_rating"
    /\ ~ret.done
    /\ Return(recompute_assign_band_from_rating(call.r), NaN)

PerfMain ==
    /\ call.fn = "perf_rating"
    /\ ~ret.done
    /\ Return(Absent, perf_rating(call.score2, call.n, call.avg_opp))

PerfRecompute ==
    /\ call.fn = "recompute.perf_rating"
    /\ ~ret.done
    /\ Return(Absent, recompute_perf_rating(call.score2, call.n, call.avg_opp))

NextCalls == ClassifyMain \/ ClassifyRecompute \/ PerfMain \/ PerfRecompute

SpecCalls == InitCalls /\ [][NextCalls]_vars

(***************************************************************************)
(* The aggregation, step by step                                           *)
(***************************************************************************)
InitFrames ==
    /\ NoLookups
    /\ NoCalls
    /\ NoParse
    /\ NoNames
    /\ NoGames
    /\ NoKeys
    /\ NoFetch
    /\ NoHistory
    /\ pipeline \in {"main", "recompute"}
    /\ use_fide \in (IF pipeline = "main" THEN BOOLEAN ELSE {TRUE})
    /\ min_opp \in (IF pipeline = "main" THEN {2500, -100} ELSE {2500})
    /\ df \in (IF pipeline = "main" THEN Frames(GameRows) \ {<< >>} ELSE Frames(OpponentRows))
    /\ stage = "loaded"
    /\ summary = << >>
    /\ overall = NoBucket

\* main: df["band"] = df["opp_rating_band_avg"].map(assign_band_from_rating)
AssignBands ==
    /\ pipeline = "main"
    /\ stage = "loaded"
    /\ df' = [k \in 1..Len(df) |->
              [df[k] EXCEPT !.band = assign_band_from_rating(df[k].rating, use_fide)]]
    /\ stage' = "banded"
    /\ UNCHANGED << pipeline, use_fide, min_opp, summary, overall, lookup_vars, call_vars, parse_vars,
                    name_vars, game_vars, key_vars, fetch_vars, history_vars >>

\* main: the rows with a rating, at or above min_opp
FilterRated ==
    /\ pipeline = "main"
    /\ stage = "banded"
    /\ df' = SelectSeq(df, LAMBDA row : row.rating # Absent /\ row.rating[1] >= min_opp)
    /\ stage' = IF df' = << >> THEN "empty" ELSE "filtered"
    /\ UNCHANGED << pipeline, use_fide, min_opp, summary, overall, lookup_vars, call_vars, parse_vars,
                    name_vars, game_vars, key_vars, fetch_vars, history_vars >>

\* main: summary = summarize_by_band(df)
Summarize ==
    /\ pipeline = "main"
    /\ stage = "filtered"
    /\ summary' = summarize_by_band(df)
    /\ stage' = "summarized"
    /\ UNCHANGED << pipeline, use_fide, min_opp, df, overall, lookup_vars, call_vars, parse_vars,
                    name_vars, game_vars, key_vars, fetch_vars, history_vars >>

\* recompute_bands: df['band'] = df['fide_rating'].apply(assign_band_from_rating)
RecomputeAssign ==
    /\ pipeline = "recompute"
    /\ stage = "loaded"
    /\ df' = [k \in 1..Len(df) |->
              [df[k] EXCEPT !.band = recompute_assign_band_from_rating(df[k].rating)]]
    /\ stage' = "banded"
    /\ UNCHANGED << pipeline, use_fide, min_opp, summary, overall, lookup_vars, call_vars, parse_vars,
                    name_vars, game_vars, key_vars, fetch_vars, history_vars >>

\* recompute_bands: df_filtered = df[df['band'] != 'below_2500']
RecomputeFilter ==
    /\ pipeline = "recompute"
    /\ stage = "banded"
    /\ df' = SelectSeq(df, LAMBDA row : row.band # Some("below_2500"))
    /\ stage' = "filtered"
    /\ UNCHANGED << pipeline, use_fide, min_opp, summary, overall, lookup_vars, call_vars, parse_vars,
                    name_vars, game_vars, key_vars, fetch_vars, history_vars >>

\* recompute_bands: the band loop, then the overall figures
RecomputeBands ==
    /\ pipeline = "recompute"
    /\ stage = "filtered"
    /\ summary' = band_performance(df)
    /\ overall' = overall_performance(df)
    /\ stage' = "summarized"
    /\ UNCHANGED << pipeline, use_fide, min_opp, df, lookup_vars, call_vars, parse_vars,
                    name_vars, game_vars, key_vars, fetch_vars, history_vars >>

NextFrames ==
    \/ AssignBands
    \/ FilterRated
    \/ Summarize
    \/ RecomputeAssign
    \/ RecomputeFilter
    \/ RecomputeBands

SpecFrames == InitFrames /\ [][NextFrames]_vars

(***************************************************************************)
(* The registry parser, line by line, and what download_fide_ratings and   *)
(* main do with its result                                                 *)
(***************************************************************************)
RECURSIVE JoinLines(_)
JoinLines(t) ==
    IF Len(t) = 0 THEN "" ELSE IF Len(t) = 1 THEN t[1] ELSE t[1] \o "\n" \o JoinLines(Tail(t))

InitParse ==
    /\ NoLookups
    /\ NoCalls
    /\ NoFrames
    /\ NoNames
    /\ NoGames
    /\ NoKeys
    /\ NoFetch
    /\ NoHistory
    /\ data \in {JoinLines(t) : t \in LineSeqs}
    /\ parser \in {"parse_fide_ratings_data", "parse_fide_ratings_correct"}
    /\ min_rating \in (IF parser = "parse_fide_ratings_data" THEN MinRatings ELSE {2500})
    /\ lines = << >>
    /\ header_line = Absent
    /\ line_no = 0
    /\ parsed = << >>
    /\ processed = 0
    /\ parse_pc = "start"
    /\ index = << >>
    /\ resolved = Outcome(Absent, NoName, "pending")
    /\ resolved_band = Absent

\* the split into lines and the header search; without a header, return {}
StartParse ==
    /\ parse_pc = "start"
    /\ lines' = SplitLines(data)
    /\ header_line' = FindHeader(lines')
    /\ parse_pc' = IF header_line' = Absent THEN "returned" ELSE "rows"
    /\ UNCHANGED << data, min_rating, parser, line_no, parsed, processed, index, resolved,
                    resolved_band, lookup_vars, call_vars, frame_vars, name_vars, game_vars, key_vars, fetch_vars, history_vars >>

\* a row loop that ends at the first line failing a digit or shape check
ParseLineStopping ==
    /\ parse_pc = "rows"
    /\ line_no < Len(lines)
    /\ LET row == RowOf(lines[line_no + 1], header_line[1], min_rating)
       IN  /\ IF line_no >= 2 /\ row.kind = "accepted"
              THEN /\ parsed' = DictPut(parsed, row.key, row.rating)
                   /\ processed' = processed + 1
              ELSE UNCHANGED << parsed, processed >>
           /\ line_no' = IF line_no >= 2 /\ row.kind \in {"no_id", "short", "rating_not_digits"}
                         THEN Len(lines)
                         ELSE line_no + 1
    /\ UNCHANGED << data, min_rating, parser, lines, header_line, parse_pc, index, resolved,
                    resolved_band, lookup_vars, call_vars, frame_vars, name_vars, game_vars, key_vars, fetch_vars, history_vars >>

\* one turn of `for i, line in enumerate(lines)`
ParseLine ==
    /\ parse_pc = "rows"
    /\ line_no < Len(lines)
    /\ LET row == RowOf(lines[line_no + 1], header_line[1], min_rating)
       IN  IF line_no >= 2 /\ row.kind = "accepted"
           THEN /\ parsed' = DictPut(parsed, row.key, row.rating)
                /\ processed' = processed + 1
           ELSE UNCHANGED << parsed, processed >>
    /\ line_no' = line_no + 1
    /\ UNCHANGED << data, min_rating, parser, lines, header_line, parse_pc, index, resolved,
                    resolved_band, lookup_vars, call_vars, frame_vars, name_vars, game_vars, key_vars, fetch_vars, history_vars >>

\* return fide_mapping
ReturnMapping ==
    /\ parse_pc = "rows"
    /\ line_no = Len(lines)
    /\ parse_pc' = "returned"
    /\ UNCHANGED << data, min_rating, parser, lines, header_line, line_no, parsed, processed,
                    index, resolved, resolved_band, lookup_vars, call_vars, frame_vars,
                    name_vars, game_vars, key_vars, fetch_vars, history_vars >>

\* download_fide_ratings, and main of create_fide_2500: sort by rating and save
BuildIndex ==
    /\ parse_pc = "returned"
    /\ index' = SortedByRating(parsed)
    /\ parse_pc' = IF parsed = << >> THEN "no_ratings"
                   ELSE IF parser = "parse_fide_ratings_data" THEN "indexed" ELSE "saved"
    /\ UNCHANGED << data, min_rating, parser, lines, header_line, line_no, parsed, processed,
                    resolved, resolved_band, lookup_vars, call_vars, frame_vars, name_vars, game_vars, key_vars, fetch_vars, history_vars >>

Queries == {<< "dummyhandle", NamedProfile("Magnus Carlsen") >>}

\* a lookup in the index just built, by either entry point
ResolveInIndex ==
    /\ parse_pc = "indexed"
    /\ \E q \in Queries :
          \/ resolved' = get_fide_rating_for_player_with_name(q[1], q[2], index)
          \/ resolved' = find_fide_rating_for_player(q[1], q[2], index)
    /\ parse_pc' = "resolved"
    /\ UNCHANGED << data, min_rating, parser, lines, header_line, line_no, parsed, processed,
                    index, resolved_band, lookup_vars, call_vars, frame_vars, name_vars, game_vars, key_vars, fetch_vars, history_vars >>

\* main: the band of the FIDE rating found
ClassifyResolved ==
    /\ parse_pc = "resolved"
    /\ resolved_band' = assign_band_from_rating(resolved.rating, TRUE)
    /\ parse_pc' = "classified"
    /\ UNCHANGED << data, min_rating, parser, lines, header_line, line_no, parsed, processed,
                    index, resolved, lookup_vars, call_vars, frame_vars, name_vars, game_vars, key_vars, fetch_vars, history_vars >>

NextParse ==
    \/ StartParse
    \/ ParseLine
    \/ ReturnMapping
    \/ BuildIndex
    \/ ResolveInIndex
    \/ ClassifyResolved

SpecParse == InitParse /\ [][NextParse]_vars

(***************************************************************************)
(* The two normalizers, applied to a name and to their own output          *)
(***************************************************************************)
MaxChars == 3

Alphabet == {"g", "m", " ", ",", "7", "."}

\* every string of at most n characters of the alphabet
RECURSIVE StringsUpTo(_)
StringsUpTo(n) ==
    IF n = 0 THEN {""}
    ELSE LET shorter == StringsUpTo(n - 1)
         IN  shorter \cup {s \o c : s \in shorter, c \in Alphabet}

\* names as the registry, the profiles and the titles give them
WrittenNames ==
    { "Carlsen, Magnus", "Van Foreest, Jorden", "Vachier-Lagrave, Maxime", "Magnus Carlsen",
      "GM Magnus Carlsen (NOR)", "international gm master", "wgm im Anna", "(n(nor)or)",
      "12345", "   ", "-", "-, -", ". ," }

RawNames == WrittenNames \cup StringsUpTo(MaxChars)

InitNames ==
    /\ NoLookups
    /\ NoCalls
    /\ NoFrames
    /\ NoParse
    /\ NoGames
    /\ NoKeys
    /\ NoFetch
    /\ NoHistory
    /\ raw \in RawNames
    /\ normalizer \in {"normalize_fide_name", "normalize_name_for_matching"}
    /\ once = Absent
    /\ twice = Absent

NormalizeFide ==
    /\ normalizer = "normalize_fide_name"
    /\ once = Absent
    /\ once' = Some(normalize_fide_name(raw))
    /\ UNCHANGED << raw, normalizer, twice, lookup_vars, call_vars, frame_vars, parse_vars, game_vars, key_vars, fetch_vars, history_vars >>

NormalizeFideAgain ==
    /\ normalizer = "normalize_fide_name"
    /\ once # Absent
    /\ twice = Absent
    /\ twice' = Some(normalize_fide_name(once[1]))
    /\ UNCHANGED << raw, normalizer, once, lookup_vars, call_vars, frame_vars, parse_vars, game_vars, key_vars, fetch_vars, history_vars >>

NormalizeFreeText ==
    /\ normalizer = "normalize_name_for_matching"
    /\ once = Absent
    /\ once' = Some(normalize_name_for_matching(raw))
    /\ UNCHANGED << raw, normalizer, twice, lookup_vars, call_vars, frame_vars, parse_vars, game_vars, key_vars, fetch_vars, history_vars >>

NormalizeFreeTextAgain ==
    /\ normalizer = "normalize_name_for_matching"
    /\ once # Absent
    /\ twice = Absent
    /\ twice' = Some(normalize_name_for_matching(once[1]))
    /\ UNCHANGED << raw, normalizer, once, lookup_vars, call_vars, frame_vars, parse_vars, game_vars, key_vars, fetch_vars, history_vars >>

NextNames ==
    \/ NormalizeFide
    \/ NormalizeFideAgain
    \/ NormalizeFreeText
    \/ NormalizeFreeTextAgain

SpecNames == InitNames /\ [][NextNames]_vars

(***************************************************************************)
(* month_range                                                             *)
(***************************************************************************)
MaxSpan == 1

\* datetime.date: a < b, a <= b
DateBefore(a, b) ==
    \/ a.year < b.year
    \/ a.year = b.year /\ a.month < b.month
    \/ a.year = b.year /\ a.month = b.month /\ a.day < b.day

DateLE(a, b) == a = b \/ DateBefore(a, b)

\* date.replace(year=y, month=m) of a first of the month raises ValueError
\* outside datetime.MINYEAR..datetime.MAXYEAR
YearInRange(y) == y >= 1 /\ y <= 9999

\* the years around the inputs, the last two being the last years of the type
Years == {2024, 2025, 9998, 9999}

Dates == {Date(y, m, d) : y \in Years, m \in {1, 2, 11, 12}, d \in {1, 28}}

\* the date ranges handed to month_range: reversed ones, and ones of at most
\* MaxSpan + 1 calendar years
DateRanges ==
    {r \in Dates \X Dates : DateBefore(r[2], r[1]) \/ r[2].year - r[1].year <= MaxSpan}

InitRange ==
    /\ NoKeys
    /\ NoFetch
    /\ NoHistory
    /\ NoLookups
    /\ NoCalls
    /\ NoFrames
    /\ NoParse
    /\ NoNames
    /\ \E r \in DateRanges : start = r[1] /\ end = r[2]
    /\ cur = [start EXCEPT !.day = 1]
    /\ months = << >>
    /\ range_pc = "loop"

\* one turn of `while cur <= end_first`
MonthStep ==
    /\ range_pc = "loop"
    /\ DateLE(cur, [end EXCEPT !.day = 1])
    /\ months' = Append(months, << cur.year, cur.month >>)
    /\ IF cur.month = 12
       THEN IF YearInRange(cur.year + 1)
            THEN cur' = [cur EXCEPT !.year = cur.year + 1, !.month = 1] /\ UNCHANGED range_pc
            ELSE range_pc' = "raised" /\ UNCHANGED cur
       ELSE cur' = [cur EXCEPT !.month = cur.month + 1] /\ UNCHANGED range_pc
    /\ UNCHANGED << start, end, lookup_vars, call_vars, frame_vars, parse_vars, name_vars,
                    key_vars, fetch_vars, history_vars >>

\* return months
MonthReturn ==
    /\ range_pc = "loop"
    /\ ~DateLE(cur, [end EXCEPT !.day = 1])
    /\ range_pc' = "returned"
    /\ UNCHANGED << start, end, cur, months, lookup_vars, call_vars, frame_vars, parse_vars,
                    name_vars, key_vars, fetch_vars, history_vars >>

NextRange ==
    \/ MonthStep
    \/ MonthReturn

SpecRange == InitRange /\ [][NextRange]_vars

FairRange == SpecRange /\ WF_vars(NextRange)

(***************************************************************************)
(* A registry name and the same person's display name: the key the parser  *)
(* files 'Surname, Given' under, and the first_last key the resolver       *)
(* builds from 'Given Surname'                                             *)
(***************************************************************************)
Words == {"Magnus", "Carlsen", "Hikaru", "Nakamura", "Li", "Im", "Cm", "Gm"}

InitKeys ==
    /\ NoFetch
    /\ NoHistory
    /\ NoLookups
    /\ NoCalls
    /\ NoFrames
    /\ NoParse
    /\ NoNames
    /\ NoGames
    /\ given \in Words
    /\ surname \in Words
    /\ registry_key = Absent
    /\ direct_key = Absent

\* parse_fide_ratings_data: normalized_name = normalize_fide_name(name)
RegistryKey ==
    /\ registry_key = Absent
    /\ registry_key' = Some(normalize_fide_name(surname \o ", " \o given))
    /\ UNCHANGED << given, surname, direct_key, lookup_vars, call_vars, frame_vars, parse_vars,
                    name_vars, game_vars, fetch_vars, history_vars >>

\* the resolver: name_parts = normalize_name_for_matching(player_name).split(),
\* and with two parts or more fide_format = f"{name_parts[0]}_{name_parts[-1]}";
\* Some(Absent) when no key is built
DirectKey ==
    /\ direct_key = Absent
    /\ LET name_parts == str_split(normalize_name_for_matching(given \o " " \o surname))
       IN  direct_key' = Some(IF Len(name_parts) >= 2
                              THEN Some(NameKey(name_parts[1], Last(name_parts)))
                              ELSE Absent)
    /\ UNCHANGED << given, surname, registry_key, lookup_vars, call_vars, frame_vars, parse_vars,
                    name_vars, game_vars, fetch_vars, history_vars >>

NextKeys ==
    \/ RegistryKey
    \/ DirectKey

SpecKeys == InitKeys /\ [][NextKeys]_vars

(***************************************************************************)
(* fetch_json and the API cache                                            *)
(***************************************************************************)
MaxRetries == 3

MaxCalls == 2

BASE == "https://api.chess.com/pub"

\* s.endswith(t)
EndsWith(s, t) == Len(t) <= Len(s) /\ SubSeq(s, Len(s) - Len(t) + 1, Len(s)) = t

is_basic_player_profile(u) ==
    /\ StartsWith(u, BASE \o "/player/")
    /\ ~EndsWith(u, "/games/archives")
    /\ ~Contains(u, "/games/")

\* the URLs the program asks for: two profiles, an archives listing, a month of
\* games, and one off the player prefix
Urls ==
    { BASE \o "/player/hikaru",
      BASE \o "/player/magnuscarlsen",
      BASE \o "/player/hikaru/games/archives",
      BASE \o "/player/hikaru/games/2025/01",
      BASE \o "/titled/GM" }

BasicTable == [u \in Urls |-> is_basic_player_profile(u)]

IsBasic(u) == BasicTable[u]

\* r.json() of a 200 for u; a body may change from one request to the next
Bodies(u) == {[of |-> u, rev |-> v] : v \in {1, 2}}

Answers(u) ==
    {Answer("json", b) : b \in Bodies(u)}
        \cup {Answer(k, NoBody) : k \in {"bad_json", "forbidden", "http_error", "exception"}}

lookup_rest == << fide_mapping, loaded, driver, todo, opp_fide, username_to_name,
                 printed, seen, via, crashed >>

other_vars == << lookup_rest, call_vars, frame_vars, parse_vars, name_vars, game_vars, key_vars,
                history_vars >>

InitFetch ==
    /\ NoHistory
    /\ NoLookups
    /\ NoCalls
    /\ NoFrames
    /\ NoParse
    /\ NoNames
    /\ NoGames
    /\ NoKeys
    /\ url = ""
    /\ retries = 0
    /\ use_cache = FALSE
    /\ attempt = 0
    /\ requests = 0
    /\ answer = NoAnswer
    /\ fetch_pc = "idle"
    /\ fetched = Absent
    /\ cache_before = Empty
    /\ served = {}
    /\ removed = Absent
    /\ calls = 0

Returned == fetch_pc \in {"cached", "body", "parse_error", "exhausted"}

\* a cache hit returns without entering the loop
FetchCached(u, c) == c /\ IsBasic(u) /\ u \in DOMAIN api_cache

\* fetch_json(url, retries, use_cache = c): the cache test
FetchCall(u, r, c) ==
    /\ fetch_pc = "idle" \/ Returned
    /\ calls < MaxCalls
    /\ calls' = calls + 1
    /\ url' = u
    /\ retries' = r
    /\ use_cache' = c
    /\ attempt' = 0
    /\ requests' = 0
    /\ answer' = NoAnswer
    /\ cache_before' = api_cache
    /\ IF FetchCached(u, c)
       THEN fetched' = Some(api_cache[u]) /\ fetch_pc' = "cached"
       ELSE fetched' = Absent /\ fetch_pc' = "loop"
    /\ UNCHANGED << api_cache, served, removed, other_vars >>

\* a store that files every body, whatever the URL
StoreAlways(u, c, body) == Put(api_cache, u, body)

\* if use_cache and is_basic_player_profile: _api_cache[url] = data
Store(u, c, body) == IF c /\ IsBasic(u) THEN Put(api_cache, u, body) ELSE api_cache

\* a loop that tries again after a body that is not JSON
KeepLoopingOnBadJson(ans) == ans.kind \in {"bad_json", "forbidden", "http_error", "exception"}

\* the answers after which `for i in range(retries)` goes on: a 403, another
\* status, a request that raised
KeepLooping(ans) == ans.kind \in {"forbidden", "http_error", "exception"}

\* one turn of `for i in range(retries)`
Attempt(ans) ==
    /\ fetch_pc = "loop"
    /\ attempt < retries
    /\ ans \in Answers(url)
    /\ requests' = requests + 1
    /\ answer' = ans
    /\ IF KeepLooping(ans)
       THEN /\ attempt' = attempt + 1
            /\ UNCHANGED << api_cache, served, fetched, fetch_pc >>
       ELSE IF ans.kind = "json"
       THEN /\ served' = served \cup {ans.body}
            /\ api_cache' = Store(url, use_cache, ans.body)
            /\ fetched' = Some(ans.body)
            /\ fetch_pc' = "body"
            /\ UNCHANGED attempt
       ELSE /\ fetched' = Absent
            /\ fetch_pc' = "parse_error"
            /\ UNCHANGED << api_cache, served, attempt >>
    /\ UNCHANGED << url, retries, use_cache, cache_before, removed, calls, other_vars >>

\* the loop is over: return None
GiveUp ==
    /\ fetch_pc = "loop"
    /\ attempt >= retries
    /\ fetched' = Absent
    /\ fetch_pc' = "exhausted"
    /\ UNCHANGED << url, retries, use_cache, attempt, requests, answer, api_cache, cache_before,
                    served, removed, calls, other_vars >>

\* cleanup_api_cache, between two calls
Cleanup ==
    /\ fetch_pc = "idle" \/ Returned
    /\ removed = Absent
    /\ LET basic_player_profiles == {u \in DOMAIN api_cache : is_basic_player_profile(u)}
       IN  /\ api_cache' = [u \in basic_player_profiles |-> api_cache[u]]
           /\ removed' = Some(Cardinality(DOMAIN api_cache) - Cardinality(basic_player_profiles))
    /\ UNCHANGED << url, retries, use_cache, attempt, requests, answer, fetch_pc, fetched,
                    cache_before, served, calls, other_vars >>

FetchStep == (\E ans \in Answers(url) : Attempt(ans)) \/ GiveUp

NextFetch ==
    \/ \E u \in Urls, r \in 0..MaxRetries, c \in BOOLEAN : FetchCall(u, r, c)
    \/ \E ans \in Answers(url) : Attempt(ans)
    \/ GiveUp
    \/ Cleanup

SpecFetch == InitFetch /\ [][NextFetch]_vars

\* requests.get has a timeout and the loop is bounded: a running call goes on
FairFetch == SpecFetch /\ WF_vars(FetchStep)

(***************************************************************************)
(* The game history: list_archives, monthly_games, parse_game_for_player,  *)
(* fetch_player_games_manual and fetch_player_games                        *)
(***************************************************************************)
\* month_range as a function: the months, and whether date.replace raised
RECURSIVE MonthsFrom(_, _)
MonthsFrom(c, e) ==
    IF ~DateLE(c, e) THEN [months |-> << >>, raised |-> FALSE]
    ELSE IF c.month = 12 /\ ~YearInRange(c.year + 1)
    THEN [months |-> << << c.year, c.month >> >>, raised |-> TRUE]
    ELSE LET rest == MonthsFrom(IF c.month = 12
                                THEN [c EXCEPT !.year = c.year + 1, !.month = 1]
                                ELSE [c EXCEPT !.month = c.month + 1], e)
         IN  [months |-> << << c.year, c.month >> >> \o rest.months, raised |-> rest.raised]

month_range(s, e) == MonthsFrom([s EXCEPT !.day = 1], [e EXCEPT !.day = 1])

\* datetime.utcfromtimestamp(seconds).date(): the civil date of a day count
DateOfDays(days) ==
    LET z   == days + 719468
        era == z \div 146097
        doe == z - era * 146097
        yoe == (doe - doe \div 1460 + doe \div 36524 - doe \div 146096) \div 365
        doy == doe - (365 * yoe + yoe \div 4 - yoe \div 100)
        mp  == (5 * doy + 2) \div 153
        d   == doy - (153 * mp + 2) \div 5 + 1
        mo  == IF mp < 10 THEN mp + 3 ELSE mp - 9
    IN  Date(yoe + era * 400 + (IF mo <= 2 THEN 1 ELSE 0), mo, d)

utc_date(seconds) == DateOfDays(seconds \div 86400)

\* str(n) for n >= 0
RECURSIVE DecimalOf(_)
DecimalOf(n) ==
    IF n < 10 THEN CharAt(DIGITS, n + 1)
    ELSE DecimalOf(n \div 10) \o CharAt(DIGITS, (n % 10) + 1)

\* f"{month:02d}"
TwoDigits(n) == IF n < 10 THEN "0" \o DecimalOf(n) ELSE DecimalOf(n)

ArchivesUrl(p) == BASE \o "/player/" \o p \o "/games/archives"

MonthUrl(p, y, m) == BASE \o "/player/" \o p \o "/games/" \o DecimalOf(y) \o "/" \o TwoDigits(m)

\* what fetch_json returns for a games URL: None, a dict without the key
\* asked for, a dict with "archives", a dict with "games"
Json(kind, items) == [kind |-> kind, items |-> items]

NoJson == Json("none", << >>)

\* fetch_json(url) for an archives or a games URL, which is never cached: the
\* provider's answer
Fetch(u, nt) == IF u \in DOMAIN nt THEN nt[u] ELSE NoJson

list_archives(p, nt) ==
    LET j == Fetch(ArchivesUrl(p), nt)
    IN  IF j.kind = "archives" THEN j.items ELSE << >>

monthly_games(p, y, m, nt) ==
    LET j == Fetch(MonthUrl(p, y, m), nt)
    IN  IF j.kind = "games" THEN j.items ELSE << >>

normalize_username(u) == str_lower(u)

\* result_map.get(my_res), in half points
result_map(code) ==
    IF code \in {"win"} THEN Some(2)
    ELSE IF code \in {"agreed", "repetition", "stalemate", "timevsinsufficient", "insufficient",
                      "50move"} THEN Some(1)
    ELSE IF code \in {"checkmated", "lose", "timeout", "resigned", "abandoned"} THEN Some(0)
    ELSE Absent

\* a side of a game: white.get("username", ""), .get("result"), .get("rating")
Side(name, result, rating) == [username |-> name, result |-> result, rating |-> rating]

\* a game of the provider; rated, time_class, end_time and start_time may be missing
Game(id, rated, time_class, white, black, end_time, start_time) ==
    [url |-> id, rated |-> rated, time_class |-> time_class, white |-> white, black |-> black,
     end_time |-> end_time, start_time |-> start_time]

GameRec(ts, me, opp, result2, opp_rating_game, opp_color, id) ==
    [ts |-> ts, me |-> me, opp |-> opp, result2 |-> result2, opp_rating_game |-> opp_rating_game,
     opp_color |-> opp_color, url |-> id]

parse_game_for_player(game, p, iu, tc) ==
    LET uw      == normalize_username(game.white.username)
        ub      == normalize_username(game.black.username)
        me      == normalize_username(p)
        seconds == IF game.end_time # Absent THEN game.end_time[1]
                   ELSE IF game.start_time # Absent THEN game.start_time[1]
                   ELSE 0
        mine    == IF uw = me THEN game.white ELSE game.black
        theirs  == IF uw = me THEN game.black ELSE game.white
        r       == result_map(mine.result)
    IN  IF ~iu /\ game.rated # Some(TRUE) THEN Absent
        ELSE IF game.time_class = Absent \/ game.time_class[1] \notin tc THEN Absent
        ELSE IF uw # me /\ ub # me THEN Absent
        ELSE IF r = Absent THEN Absent
        ELSE Some(GameRec(seconds, me, normalize_username(theirs.username), r[1],
                          IF theirs.rating # Absent /\ theirs.rating[1] # 0
                          THEN theirs.rating ELSE Absent,
                          IF uw = me THEN "black" ELSE "white", game.url))

\* a window that has no upper end
InWindowOpen(d, s, e) == DateLE(s, d)

\* since <= d <= until
InWindow(d, s, e) == DateLE(s, d) /\ DateLE(d, e)

\* the records one month of games adds: the loop over games
MonthRecords(games, p, s, e, iu, tc) ==
    LET recs == [k \in 1..Len(games) |-> parse_game_for_player(games[k], p, iu, tc)]
        kept == SelectSeq(recs, LAMBDA rec : rec # Absent /\ InWindow(utc_date(rec[1].ts), s, e))
    IN  [k \in 1..Len(kept) |-> kept[k][1]]

RECURSIVE Flatten(_)
Flatten(lists) == IF lists = << >> THEN << >> ELSE Head(lists) \o Flatten(Tail(lists))

\* what a call leaves: the records and the return statement, or an exception
Returns(recs, by) == [raised |-> FALSE, records |-> recs, path |-> by]

Raises == [raised |-> TRUE, records |-> << >>, path |-> "raise"]

fetch_player_games_manual(p, s, e, iu, tc, nt, by) ==
    LET range == month_range(s, e)
    IN  IF range.raised THEN Raises
        ELSE Returns(Flatten([k \in 1..Len(range.months) |->
                                 MonthRecords(monthly_games(p, range.months[k][1],
                                                            range.months[k][2], nt),
                                              p, s, e, iu, tc)]), by)

\* archive_url.rstrip("/")
RECURSIVE RStripSlash(_)
RStripSlash(u) ==
    IF u # "" /\ CharAt(u, Len(u)) = "/" THEN RStripSlash(Take(u, Len(u) - 1)) ELSE u

\* parts = archive_url.rstrip("/").split("/")[-2:]; y, m = int(parts[0]), int(parts[1]);
\* Absent where the try block raises
ArchiveMonth(u) ==
    LET all   == str_split_sep(RStripSlash(u), "/")
        parts == SubSeq(all, IF Len(all) > 2 THEN Len(all) - 1 ELSE 1, Len(all))
    IN  IF Len(parts) = 2 /\ str_isdigit(parts[1]) /\ str_isdigit(parts[2])
        THEN Some(<< int(parts[1]), int(parts[2]) >>)
        ELSE Absent

fetch_player_games(p, s, e, v, iu, tc, nt) ==
    LET archives == list_archives(p, nt)
        range    == month_range(s, e)
        want     == {range.months[k] : k \in 1..Len(range.months)}
        named    == [k \in 1..Len(archives) |-> ArchiveMonth(archives[k])]
        wanted   == SelectSeq(named, LAMBDA ym : ym # Absent /\ ym[1] \in want)
        fetched_games == [k \in 1..Len(wanted) |-> monthly_games(p, wanted[k][1][1], wanted[k][1][2], nt)]
        found_any == \E k \in 1..Len(fetched_games) : fetched_games[k] # << >>
        recs     == Flatten([k \in 1..Len(fetched_games) |->
                                MonthRecords(fetched_games[k], p, s, e, iu, tc)])
    IN  IF archives = << >>
        THEN fetch_player_games_manual(p, s, e, iu, tc, nt, "manual_no_archives")
        ELSE IF range.raised THEN Raises
        ELSE IF ~found_any /\ v
        THEN fetch_player_games_manual(p, s, e, iu, tc, nt, "manual_no_games")
        ELSE Returns(recs, "archives")

(***************************************************************************)
(* The histories the model fetches: one player, three months of games      *)
(***************************************************************************)
Hikaru == "Hikaru"

RatedBlitz(id, white, black, end_time) ==
    Game(id, Some(TRUE), Some("blitz"), white, black, Some(end_time), Absent)

\* 2025-01-10 12:00:00 UTC, a win with white
GameWin ==
    RatedBlitz("g1", Side("Hikaru", "win", Some(2850)), Side("MagnusCarlsen", "resigned", Some(2900)),
          1736510400)

\* 2025-01-15 23:59:59 UTC, a draw with black
GameDraw ==
    RatedBlitz("g2", Side("nihalsarin", "agreed", Some(2700)), Side("hikaru", "agreed", Some(2850)),
          1736985599)

\* 2025-01-16 00:00:00 UTC, a loss with white
GameLoss ==
    RatedBlitz("g3", Side("hikaru", "timeout", Some(2850)), Side("MagnusCarlsen", "win", Absent),
          1736985600)

\* 2024-12-20 10:00:00 UTC
GameDecember ==
    RatedBlitz("g4", Side("hikaru", "win", Some(2850)), Side("nihalsarin", "checkmated", Some(0)),
          1734688800)

\* 2025-02-03 09:00:00 UTC
GameFebruary ==
    RatedBlitz("g5", Side("MagnusCarlsen", "win", Some(2900)), Side("Hikaru", "resigned", Some(2850)),
          1738573200)

GameUnrated ==
    Game("g6", Some(FALSE), Some("blitz"), Side("hikaru", "win", Some(2850)),
         Side("nihalsarin", "resigned", Some(2700)), Some(1736510400), Absent)

GameRapid ==
    Game("g7", Some(TRUE), Some("rapid"), Side("hikaru", "win", Some(2850)),
         Side("nihalsarin", "resigned", Some(2700)), Some(1736510400), Absent)

\* a game between two other players
GameOthers ==
    RatedBlitz("g8", Side("MagnusCarlsen", "win", Some(2900)), Side("nihalsarin", "resigned", Some(2700)),
          1736510400)

\* a result code result_map does not hold
GameOddResult ==
    RatedBlitz("g9", Side("hikaru", "kingofthehill", Some(2850)), Side("nihalsarin", "win", Some(2700)),
          1736510400)

\* no end_time; started 2025-01-01 00:00:00 UTC
GameNoEnd ==
    Game("g10", Some(TRUE), Some("blitz"), Side("nihalsarin", "win", Some(2700)),
         Side("hikaru", "checkmated", Some(2850)), Absent, Some(1735689600))

\* neither rated nor time_class, neither end_time nor start_time
GameBare ==
    Game("g11", Absent, Absent, Side("hikaru", "win", Absent), Side("", "lose", Absent),
         Absent, Absent)

AllGames ==
    {GameWin, GameDraw, GameLoss, GameDecember, GameFebruary, GameUnrated, GameRapid, GameOthers,
     GameOddResult, GameNoEnd, GameBare}

December == MonthUrl(Hikaru, 2024, 12)

January == MonthUrl(Hikaru, 2025, 1)

February == MonthUrl(Hikaru, 2025, 2)

\* what the provider may answer for the archives listing
Listings ==
    { NoJson,
      Json("no_key", << >>),
      Json("archives", << >>),
      Json("archives", << January >>),
      Json("archives", << December, January, February >>),
      Json("archives", << ArchivesUrl(Hikaru), January \o "/", BASE \o "/player/Hikaru/games/2025/1" >>),
      Json("archives", << February >>) }

\* and for the three months
DecemberAnswers == {NoJson, Json("games", << GameDecember >>)}

JanuaryAnswers ==
    { NoJson,
      Json("no_key", << >>),
      Json("games", << >>),
      Json("games", << GameWin, GameDraw, GameLoss >>),
      Json("games", << GameUnrated, GameRapid, GameOthers, GameOddResult, GameNoEnd, GameBare >>),
      Json("games", << GameDecember, GameDraw, GameNoEnd, GameWin >>) }

FebruaryAnswers == {NoJson, Json("games", << GameFebruary, GameLoss >>)}

Providers ==
    {(ArchivesUrl(Hikaru) :> l) @@ (December :> d) @@ (January :> j) @@ (February :> f) :
        l \in Listings, d \in DecemberAnswers, j \in JanuaryAnswers, f \in FebruaryAnswers}

\* --since and --until
Windows ==
    { << Date(2025, 1, 1), Date(2025, 1, 15) >>,
      << Date(2024, 12, 15), Date(2025, 1, 31) >>,
      << Date(2025, 1, 16), Date(2025, 2, 28) >>,
      << Date(2025, 2, 1), Date(2025, 1, 1) >> }

InitHistory ==
    /\ NoLookups
    /\ NoCalls
    /\ NoFrames
    /\ NoParse
    /\ NoNames
    /\ NoGames
    /\ NoKeys
    /\ NoFetch
    /\ account = Hikaru
    /\ \E w \in Windows : since = w[1] /\ until = w[2]
    /\ verbose \in BOOLEAN
    /\ include_unrated \in BOOLEAN
    /\ provider \in Providers
    /\ records = << >>
    /\ path = "none"
    /\ games_pc = "start"

\* main: games = fetch_player_games(player, since, until, verbose, include_unrated, time_classes)
FetchPlayerGames ==
    /\ games_pc = "start"
    /\ LET out == fetch_player_games(account, since, until, verbose, include_unrated, {"blitz"},
                                     provider)
       IN  /\ records' = out.records
           /\ path' = out.path
           /\ games_pc' = IF out.raised THEN "raised" ELSE "returned"
    /\ UNCHANGED << account, since, until, verbose, include_unrated, provider, lookup_vars,
                    call_vars, frame_vars, parse_vars, name_vars, game_vars, key_vars, fetch_vars >>

NextHistory == FetchPlayerGames

SpecHistory == InitHistory /\ [][NextHistory]_vars

(***************************************************************************)
(* The resolver's claims.  A lookup is read back from the state: seen[h]   *)
(* is the profile it worked on, via[h] the return it left by, Result(h)    *)
(* the rating it gave.                                                     *)
(***************************************************************************)
LookedUp == DOMAIN via

Result(h) == IF driver = "compute" THEN opp_fide[h] ELSE printed[h]

\* the provider delivered a profile object: the lookup has a (handle, display name) query
IsQuery(profile) ==
    /\ profile.shape = "dict"
    /\ profile.country_kind # "number"
    /\ profile.name_kind # "number"

\* the display name of a query, "" when the profile carries none
DisplayName(profile) == IF profile.name_kind = "str" THEN profile.name ELSE ""

QueryParts(h) == NameParts(DisplayName(seen[h]))

Order == << "exact", "direct", "reverse", "partial", "variant" >>

\* the strategies the running entry point has
Strategies == IF driver = "compute" THEN 1..5 ELSE 1..4

StrategyHits(s, h, m) ==
    LET parts == QueryParts(h)
    IN  CASE s = "exact"   -> HasKey(m, HandleKey(h))
          [] s = "direct"  -> Len(parts) >= 2 /\ HasKey(m, NameKey(parts[1], Last(parts)))
          [] s = "reverse" -> Len(parts) >= 2 /\ HasKey(m, NameKey(Last(parts), parts[1]))
          [] s = "partial" -> PartialHits(parts, m) # {}
          [] s = "variant" -> VariantHits(parts, m) # {}

StrategyRating(s, h, m) ==
    LET parts == QueryParts(h)
    IN  CASE s = "exact"   -> Lookup(m, HandleKey(h))
          [] s = "direct"  -> Lookup(m, NameKey(parts[1], Last(parts)))
          [] s = "reverse" -> Lookup(m, NameKey(Last(parts), parts[1]))
          [] s = "partial" -> m[SetMin(PartialHits(parts, m))].rating
          [] s = "variant" -> m[SetMin(VariantHits(parts, m))].rating

Hitting(h, m) == {i \in Strategies : StrategyHits(Order[i], h, m)}

C2_PartialNeedsBothTokens ==
    \A h \in LookedUp :
        /\ via[h] = "partial" =>
               /\ Len(QueryParts(h)) = 2
               /\ \E i \in 1..Len(loaded) :
                      /\ Result(h) = Some(loaded[i].rating)
                      /\ Len(KeyParts(loaded[i].key)) >= 2
                      /\ TokenMatch(QueryParts(h)[1], KeyParts(loaded[i].key)[1])
                      /\ TokenMatch(QueryParts(h)[2], Last(KeyParts(loaded[i].key)))
        /\ (IsQuery(seen[h]) /\ QueryParts(h) = <<"oleksandr", "ivanov">>
                /\ Keys(loaded) = {"oleksandr_petrenko"})
               => (via[h] = "none" /\ Result(h) = Absent)

C2_Witness ==
    \E h \in LookedUp :
        /\ IsQuery(seen[h])
        /\ QueryParts(h) = <<"oleksandr", "ivanov">>
        /\ Keys(loaded) = {"oleksandr_petrenko"}
        /\ Result(h) = Absent

\* the token condition as the claim words it: equal, or both longer than 4
\* characters and the query token inside the registry token
QueryInsideRegistry(q, f) == q = f \/ (Len(q) > 4 /\ Len(f) > 4 /\ Contains(f, q))

\* the token condition either way round
EitherInsideOther(q, f) ==
    q = f \/ (Len(q) > 4 /\ Len(f) > 4 /\ (Contains(f, q) \/ Contains(q, f)))

\* a two-token query no earlier strategy resolved
ReachedPartial(h) ==
    /\ IsQuery(seen[h])
    /\ Len(QueryParts(h)) = 2
    /\ via[h] \in {"partial", "variant", "none"}

AcceptedAsClaimed(h, e) ==
    /\ Len(KeyParts(e.key)) >= 2
    /\ QueryInsideRegistry(QueryParts(h)[1], KeyParts(e.key)[1])
    /\ QueryInsideRegistry(QueryParts(h)[2], Last(KeyParts(e.key)))

AcceptedEitherWay(h, e) ==
    /\ Len(KeyParts(e.key)) >= 2
    /\ EitherInsideOther(QueryParts(h)[1], KeyParts(e.key)[1])
    /\ EitherInsideOther(QueryParts(h)[2], Last(KeyParts(e.key)))

\* C3 as claimed: a partial match needs the query token equal to, or inside,
\* the registry token; a registry token inside a longer query token is no match.
C3_Claimed ==
    \A h \in LookedUp :
        (ReachedPartial(h) /\ via[h] = "partial") =>
            \E i \in 1..Len(loaded) : AcceptedAsClaimed(h, loaded[i])

\* C3 as amended: a query token matches the registry token exactly when the two
\* are equal, or both are longer than 4 characters and either one is a
\* substring of the other; the first entry of the index whose two tokens match
\* so is the one returned.
C3_EitherDirection ==
    \A h \in LookedUp :
        ReachedPartial(h) =>
            LET accepted == {i \in 1..Len(loaded) : AcceptedEitherWay(h, loaded[i])}
            IN  /\ via[h] = "partial" <=> accepted # {}
                /\ via[h] = "partial" => Result(h) = Some(loaded[SetMin(accepted)].rating)

\* a partial match through a registry token that is a proper substring of the
\* query token: 'alexander' against 'alexa'
C3_Witness ==
    \E h \in LookedUp :
        /\ ReachedPartial(h)
        /\ via[h] = "partial"
        /\ QueryParts(h) = <<"alexander", "ivanov">>
        /\ Keys(loaded) = {"alexa_ivanov"}
        /\ Result(h) = Some(2600)

\* C4 as claimed: a VARIANT_SPELLING hit has the last tokens equal and the
\* first tokens in one spelling class, and the classes are symmetric: the
\* registry's first name as the query matches the query's first name as the
\* registry's.
C4_Claimed ==
    \A h \in LookedUp :
        via[h] = "variant" =>
            LET parts == QueryParts(h)
                e     == loaded[SetMin(VariantHits(parts, loaded))]
                B     == KeyParts(e.key)[1]
            IN  /\ Last(KeyParts(e.key)) = Last(parts)
                /\ B \in FirstVariations(parts[1])
                /\ VariantEntryMatch(B, Last(parts), NameKey(parts[1], Last(parts)))

\* C5 as claimed: with no display name (no profile at all, an empty profile,
\* a missing, null or empty name) the lookup is the EXACT_HANDLE lookup.
NoDisplayName(profile) ==
    \/ profile.shape \in {"none", "empty_dict"}
    \/ (IsQuery(profile) /\ DisplayName(profile) = "")

C5_Claimed ==
    \A h \in LookedUp :
        NoDisplayName(seen[h]) =>
            Result(h) = IF HasKey(loaded, HandleKey(h))
                        THEN Some(Lookup(loaded, HandleKey(h)))
                        ELSE Absent

\* C6: the result a handle got stays what it is while other handles are looked
\* up in any order, a handle looked up again on the same profile gets the same
\* result, and no lookup changes the index.
C6_Step ==
    /\ fide_mapping' = fide_mapping
    /\ \A h \in DOMAIN opp_fide :
           (h \in DOMAIN opp_fide' /\ seen'[h] = seen[h]) => opp_fide'[h] = opp_fide[h]
    /\ \A h \in DOMAIN printed :
           (h \in DOMAIN printed' /\ seen'[h] = seen[h]) => printed'[h] = printed[h]

C7_NeverRaises ==
    /\ ~crashed
    /\ \A h \in LookedUp :
           /\ via[h] # "raise"
           /\ via[h] \in {"none", "no_profile", "error"} => Result(h) = Absent
    /\ driver = "compute" =>
           /\ DOMAIN opp_fide = Handles \ todo
           /\ DOMAIN opp_fide = LookedUp

\* the loop ended after a malformed profile, with an absent entry for its handle
C7_Witness ==
    /\ driver = "compute"
    /\ todo = {}
    /\ \E h \in Handles :
           /\ seen[h].shape = "list"
           /\ via[h] = "error"
           /\ opp_fide[h] = Absent

(***************************************************************************)
(* The classifiers' and perf_rating's claims                               *)
(***************************************************************************)
Classified == ret.done /\ call.fn \in {"assign_band_from_rating", "recompute.assign_band_from_rating"}

Rated == ret.done /\ call.fn \in {"perf_rating", "recompute.perf_rating"}

ThresholdBand(x) ==
    IF x >= 2800 THEN Some("800+")
    ELSE IF x >= 2700 THEN Some("700")
    ELSE IF x >= 2600 THEN Some("600")
    ELSE IF x >= 2500 THEN Some("500")
    ELSE Absent

\* C8: every classifier entry point, in every mode, maps a numeric rating by
\* the closed lower-bound thresholds 2800, 2700, 2600, 2500, and whatever is
\* below 2500 to an absent band.
C8_Claimed ==
    (Classified /\ call.r # Absent) => ret.band = ThresholdBand(call.r[1])

Unrated(r) == r = Absent \/ r[1] < 0

FourLabels == {BandOrder[k] : k \in 1..Len(BandOrder)}

Banded == stage \in {"banded", "filtered", "empty", "summarized"}

GamesOf(rows) == Sum(Games(rows))

\* the buckets count exactly the rows that carry one of the four labels
BucketsCountLabelledRows ==
    /\ \A k \in 1..Len(summary) :
          /\ summary[k].band \in FourLabels
          /\ summary[k].games = GamesOf(InBand(df, summary[k].band))
    /\ \A label \in FourLabels :
          InBand(df, label) # << >> => \E k \in 1..Len(summary) : summary[k].band = label

IsExactly(p, v) == p.kind = "number" /\ p.log_num = p.log_den /\ p.avg + p.const = v

\* C10: perf_rating tests its cases in this order: n = 0 gives NaN, even for
\* score 0; else score <= 0 gives avgOpp - 800; else score >= n gives
\* avgOpp + 800; else avgOpp + 400*log10(score/(n - score)), which is avgOpp
\* exactly when score = n/2.  perf(0,5,2600) = 1800, perf(5,5,2600) = 3400,
\* perf(2.5,5,2600) = 2600.
C10_PerfPiecewise ==
    Rated =>
       LET score2 == call.score2
           n      == call.n
           p      == ret.perf
       IN  /\ n = 0 => p = NaN
           /\ (n # 0 /\ score2 <= 0) => IsExactly(p, call.avg_opp - 800)
           /\ (n # 0 /\ score2 > 0 /\ score2 >= 2 * n) => IsExactly(p, call.avg_opp + 800)
           /\ (n # 0 /\ score2 > 0 /\ score2 < 2 * n) =>
                 /\ p.kind = "number" /\ p.avg = call.avg_opp /\ p.const = 0
                 /\ p.log_num * (2 * n - score2) = p.log_den * score2
                 /\ IsExactly(p, call.avg_opp) <=> score2 = n
           /\ (score2 = 0 /\ n = 5 /\ call.avg_opp = 2600) => IsExactly(p, 1800)
           /\ (score2 = 10 /\ n = 5 /\ call.avg_opp = 2600) => IsExactly(p, 3400)
           /\ (score2 = 5 /\ n = 5 /\ call.avg_opp = 2600) => IsExactly(p, 2600)

\* perf_rating has returned for no games and no points
C10_Witness ==
    /\ Rated
    /\ call.fn = "perf_rating"
    /\ call.n = 0
    /\ call.score2 = 0
    /\ ret.perf = NaN


(***************************************************************************)
(* The aggregation's claims                                                *)
(***************************************************************************)
Labelled(rows) == SelectSeq(rows, LAMBDA row : row.band # Absent /\ row.band[1] \in FourLabels)

HasFigures(b) == DOMAIN b = {"band", "games", "score2", "avg_opp", "perf"}

\* C11: the aggregator returns one bucket for each band observed among the
\* games and one overall bucket over all classified games, each with game
\* count, total score, mean opponent rating and performance rating.
C11_Claimed ==
    stage = "summarized" =>
        /\ \A label \in FourLabels :
              InBand(df, label) # << >> <=> \E k \in 1..Len(summary) : summary[k].band = label
        /\ \A k \in 1..Len(summary) : HasFigures(summary[k])
        /\ overall.band = "overall"
        /\ overall.games = GamesOf(Labelled(df))
        /\ overall.score2 = Sum(Results(Labelled(df)))

\* C12: whatever the order of the games and the counts per band, the band
\* buckets come in strictly increasing band rank 500 < 600 < 700 < 800+, and
\* no band comes twice.
C12_BucketsInRankOrder ==
    stage = "summarized" =>
        /\ \A k \in 1..(Len(summary) - 1) : Rank(summary[k].band) < Rank(summary[k + 1].band)
        /\ \A j, k \in 1..Len(summary) : summary[j].band = summary[k].band => j = k

\* games that arrive highest band first, summarized into two buckets
C12_Witness ==
    /\ stage = "summarized"
    /\ pipeline = "main"
    /\ Len(df) >= 2
    /\ df[1].band = Some("800+")
    /\ df[2].band = Some("500")
    /\ Len(summary) = 2
    /\ summary[1].band = "500"

(***************************************************************************)
(* The registry parser's claims                                            *)
(***************************************************************************)
Searched == parse_pc \notin {"none", "start"}

HeaderAt == {k \in 1..Len(lines) : IsHeader(lines[k])}

WellFormedAt == {k \in 1..Len(lines) : RowOf(lines[k], HeaderLine, min_rating).kind = "accepted"}

\* C13: the header is the first line holding both "ID Number" and "Name", and
\* a text without such a line yields the empty mapping whatever rows it holds
C13_FirstHeaderOrEmpty ==
    Searched =>
        /\ HeaderAt # {} =>
               /\ header_line # Absent
               /\ \E k \in HeaderAt :
                     /\ header_line[1] = lines[k]
                     /\ \A j \in 1..(k - 1) : j \notin HeaderAt
        /\ HeaderAt = {} =>
               /\ header_line = Absent
               /\ parse_pc \in {"returned", "no_ratings"}
               /\ parsed = << >>
               /\ index = << >>

\* a text of well-formed rows without a header has been parsed
C13_Witness ==
    /\ parse_pc = "returned"
    /\ HeaderAt = {}
    /\ WellFormedAt # {}
    /\ 3 \in WellFormedAt

\* the fields of a line under a header, read as the claim names them
IdField(l) == str_strip(Slice(l, 0, 10))

RatingField(l, h) == str_strip(Slice(l, str_find(h, "BRtng"), str_find(h, "BRtng") + 5))

NameField(l, h) == str_strip(Slice(l, str_find(h, "Name"), str_find(h, "Fed")))

Qualifies(l, h, m) ==
    /\ str_isdigit(IdField(l))
    /\ str_isdigit(RatingField(l, h))
    /\ int(RatingField(l, h)) >= m
    /\ NameField(l, h) \notin {"", "-", "-, -"}

QualifiedEntry(l, h, m) ==
    IF Qualifies(l, h, m)
    THEN Some([key |-> normalize_fide_name(NameField(l, h)), rating |-> int(RatingField(l, h))])
    ELSE Absent

QualifiedTable == [h \in PoolHeaders, l \in PoolLines, m \in MinRatings |-> QualifiedEntry(l, h, m)]

EntriesHeld == {parsed[k] : k \in 1..Len(parsed)} \cup {index[k] : k \in 1..Len(index)}

\* C14: every entry of the parsed mapping and of the index built from it comes
\* from a line with a numeric id field, an all-digit rating field of at least
\* the minimum rating and a name that is no placeholder; so every value is at
\* least the minimum rating and no key is empty
C14_EntriesFromQualifiedRows ==
    Searched =>
        \A e \in EntriesHeld :
            /\ e.rating >= min_rating
            /\ e.key # ""
            /\ \E k \in 1..Len(lines) :
                  QualifiedTable[header_line[1], lines[k], min_rating] = Some(e)

\* an index was built from a text that also holds a row below the minimum
\* rating and a row with a placeholder name or a malformed field
C14_Witness ==
    /\ parse_pc = "indexed"
    /\ index # << >>
    /\ \E k \in 3..Len(lines) :
          lines[k] \in {RowLow, RowPlaceholder, RowBadId, RowBadRating}

\* the position of the header in the text, counted from 1
HeaderPos == SetMin(HeaderAt)

\* the positions of the well-formed rows under the header found
AcceptableAt ==
    {k \in 1..Len(lines) : RowOf(lines[k], header_line[1], min_rating).kind = "accepted"}

KeyAt(k) == RowOf(lines[k], header_line[1], min_rating).key

\* C15: the parser considers exactly the lines after the header, wherever the
\* header is: every well-formed row after it, the next line included, is in the
\* mapping, and no line at or before it is
C15_Claimed ==
    (parse_pc = "returned" /\ header_line # Absent) =>
        /\ \A k \in AcceptableAt : k > HeaderPos => HasKey(parsed, KeyAt(k))
        /\ \A e \in EntriesHeld : \E k \in AcceptableAt : k > HeaderPos /\ KeyAt(k) = e.key

\* the registry text of the scenario: the header and the one row under it
ScenarioText == JoinLines(<< WideHeader, WideRowCarlsen >>)

\* C16: the header and the single row for Carlsen, parsed with minimum rating
\* 2500, give exactly {magnus_carlsen: 2900}; the query ("dummyhandle",
\* "Magnus Carlsen") then resolves by the direct order to 2900, band "800+"
C16_Claimed ==
    (data = ScenarioText /\ min_rating = 2500 /\ parser = "parse_fide_ratings_data") =>
        /\ parse_pc \notin {"start", "rows"} =>
               parsed = << [key |-> "magnus_carlsen", rating |-> 2900] >>
        /\ parse_pc \notin {"start", "rows", "returned"} =>
               /\ parse_pc # "no_ratings"
               /\ index = << [key |-> "magnus_carlsen", rating |-> 2900] >>
        /\ parse_pc \in {"resolved", "classified"} =>
               resolved.rating = Some(2900) /\ resolved.via = "direct"
        /\ parse_pc = "classified" => resolved_band = Some("800+")

\* the rows the loop has accepted so far, each with the entry it stored
AcceptedRows ==
    LET row == [k \in 1..line_no |-> RowOf(lines[k], header_line[1], min_rating)]
    IN  [k \in {j \in 3..line_no : row[j].kind = "accepted"} |->
            [key |-> row[k].key, rating |-> row[k].rating]]

AcceptedAt == DOMAIN AcceptedRows

HoldsOnce(m, e) ==
    /\ Cardinality({i \in 1..Len(m) : m[i].key = e.key}) = 1
    /\ \E i \in 1..Len(m) : m[i] = e

\* C17: when several accepted rows normalize to one key, the mapping (and the
\* index sorted from it) holds the key once, with the rating of the last such
\* row in text order, be it higher or lower than the earlier ones
C17_LastWriteWins ==
    (Searched /\ header_line # Absent) =>
        LET rows == AcceptedRows
        IN  \A k \in DOMAIN rows :
                (\A j \in DOMAIN rows : j > k => rows[j].key # rows[k].key) =>
                    /\ HoldsOnce(parsed, rows[k])
                    /\ parse_pc \in {"indexed", "saved", "resolved", "classified"} =>
                           HoldsOnce(index, rows[k])

\* two accepted rows for Carlsen, the later one with the lower rating, and the
\* index holds the lower rating
C17_Witness ==
    /\ parse_pc = "indexed"
    /\ \E k \in AcceptedAt :
          /\ lines[k] = RowCarlsen
          /\ k + 1 \in AcceptedAt
          /\ lines[k + 1] = RowCarlsenLower
    /\ index = << [key |-> "magnus_carlsen", rating |-> 2600] >>

\* the lines read so far that failed a digit or shape check
MalformedAt ==
    {k \in 3..line_no :
        RowOf(lines[k], header_line[1], min_rating).kind
            \in {"no_id", "short", "no_rating_column", "rating_not_digits"}}

IsAlpha(c) == CharIn(c, UPPER) \/ CharIn(c, LOWER)

NoAlpha(s) == \A i \in 1..Len(s) : ~IsAlpha(CharAt(s, i))

\* C19: each normalizer applied to its own output returns that output
C19_Claimed == twice # Absent => twice = once

\* C20: a name without an alphabetic character (digits, whitespace,
\* punctuation, a lone comma) normalizes to the empty string
C20_Claimed == (once # Absent /\ NoAlpha(raw)) => once = Some("")

(***************************************************************************)
(* The claims about the game history                                       *)
(***************************************************************************)
MonthIndex(d) == d.year * 12 + d.month - 1

\* the (year, month) pairs from start's month to end's month, in calendar order
MonthsBetween ==
    LET first == MonthIndex(start)
        last  == MonthIndex(end)
    IN  [k \in 1..(IF last >= first THEN last - first + 1 ELSE 0) |->
            << (first + k - 1) \div 12, ((first + k - 1) % 12) + 1 >>]

\* C23: month_range terminates for all dates and returns the consecutive
\* (year, month) pairs from start's month to end's month, the empty list when
\* start's month is after end's
C23_Claimed ==
    /\ range_pc # "raised"
    /\ range_pc = "returned" => months = MonthsBetween

(***************************************************************************)
(* The claims about the index download_fide_ratings builds                 *)
(***************************************************************************)
IndexBuilt == parse_pc \in {"no_ratings", "indexed", "saved", "resolved", "classified"}

\* C22: the index download_fide_ratings builds is ordered by non-increasing
\* rating, has no key twice, and holds exactly the key and rating pairs the
\* parser returned
C22_IndexIsSortedParserMapping ==
    IndexBuilt =>
        /\ \A j, k \in 1..Len(index) : j < k => index[j].rating >= index[k].rating
        /\ \A j, k \in 1..Len(index) : j # k => index[j].key # index[k].key
        /\ Len(index) = Len(parsed)
        /\ {index[k] : k \in 1..Len(index)} = {parsed[k] : k \in 1..Len(parsed)}

\* the parser returned a lower-rated player before a higher-rated one and the
\* index lists them the other way round
C22_Witness ==
    /\ parse_pc = "indexed"
    /\ Len(parsed) = 2
    /\ parsed[1].rating < parsed[2].rating
    /\ index = << parsed[2], parsed[1] >>

(***************************************************************************)
(* The claims about what the band aggregation conserves                    *)
(***************************************************************************)
\* the positions of the games of df that have a band
WithBand == {k \in 1..Len(df) : df[k].band # Absent}

RECURSIVE SumOver(_, _)
SumOver(f, S) ==
    IF S = {} THEN 0
    ELSE LET k == CHOOSE x \in S : TRUE IN f[k] + SumOver(f, S \ {k})

\* C30: over the buckets summarize_by_band returns, the game counts sum to
\* the number of games that have a band and the scores to the total result of
\* those games, and each such game is counted in exactly one bucket, the one
\* of its own band
C30_GamesAndScoreConserved ==
    (pipeline = "main" /\ stage = "summarized") =>
        /\ SumOver([k \in 1..Len(summary) |-> summary[k].games], 1..Len(summary))
              = Cardinality(WithBand)
        /\ SumOver([k \in 1..Len(summary) |-> summary[k].score2], 1..Len(summary))
              = SumOver([k \in 1..Len(df) |-> df[k].result2], WithBand)
        /\ \A k \in WithBand :
              \E b \in 1..Len(summary) :
                  /\ summary[b].band = df[k].band[1]
                  /\ \A c \in 1..Len(summary) : summary[c].band = df[k].band[1] => c = b
                  /\ summary[b].games = Cardinality({j \in WithBand : df[j].band = df[k].band})
                  /\ summary[b].score2
                        = SumOver([j \in 1..Len(df) |-> df[j].result2],
                                  {j \in WithBand : df[j].band = df[k].band})

\* two games against the same band, a win and a draw, in one bucket
C30_Witness ==
    /\ pipeline = "main"
    /\ stage = "summarized"
    /\ Len(df) = 2
    /\ df[1].band = df[2].band
    /\ df[1].band # Absent
    /\ df[1].result2 = 2
    /\ df[2].result2 = 1
    /\ Len(summary) = 1
    /\ summary[1].games = 2
    /\ summary[1].score2 = 3

(***************************************************************************)
(* The claims about the range of perf_rating                               *)
(***************************************************************************)
RECURSIVE Pow10(_)
Pow10(k) == IF k <= 0 THEN 1 ELSE 10 * Pow10(k - 1)

\* p <= q for two performance ratings over the same avg_opp:
\* p.const + 400*log10(p.log_num/p.log_den) <= q.const + 400*log10(q.log_num/q.log_den)
PerfLeq(p, q) ==
    LET k == (q.const - p.const) \div 400
    IN  IF k >= 0
        THEN p.log_num * q.log_den <= Pow10(k) * q.log_num * p.log_den
        ELSE Pow10(-k) * p.log_num * q.log_den <= q.log_num * p.log_den

PerfOf(fn, score2, n, avg_opp) ==
    IF fn = "perf_rating" THEN perf_rating(score2, n, avg_opp)
    ELSE recompute_perf_rating(score2, n, avg_opp)

\* C28: for n > 0 and a score in half points between 0 and n, perf_rating is
\* within [avg_opp - 800, avg_opp + 800] and does not go down when the score
\* goes up by half a point
C28_Claimed ==
    (Rated /\ call.n > 0 /\ call.score2 >= 0 /\ call.score2 <= 2 * call.n) =>
        /\ PerfLeq(Number(call.avg_opp, -800, 1, 1), ret.perf)
        /\ PerfLeq(ret.perf, Number(call.avg_opp, 800, 1, 1))
        /\ call.score2 < 2 * call.n =>
               PerfLeq(ret.perf, PerfOf(call.fn, call.score2 + 1, call.n, call.avg_opp))

(***************************************************************************)
(* The claim about the two entry points of the resolver                    *)
(***************************************************************************)
\* what find_fide_rating_for_player gives for a lookup made: the rating
\* test_fide printed, or the function on the profile the lookup saw
FoundRating(h) ==
    IF driver = "test" THEN printed[h]
    ELSE find_fide_rating_for_player(h, seen[h], loaded).rating

\* the same for get_fide_rating_for_player_with_name and opp_fide
NamedRating(h) ==
    IF driver = "compute" THEN opp_fide[h]
    ELSE get_fide_rating_for_player_with_name(h, seen[h], loaded).rating

Answered == {h \in LookedUp : h \in DOMAIN (IF driver = "compute" THEN opp_fide ELSE printed)}

C21_Claimed ==
    (registry_key # Absent /\ direct_key # Absent) => direct_key[1] = registry_key

(***************************************************************************)
(* The claims about fetch_json and the API cache                           *)
(***************************************************************************)
ProfileUrls == {BASE \o "/player/hikaru", BASE \o "/player/magnuscarlsen"}

\* C25: from an empty cache, every key of the API cache is a basic
\* player-profile URL and its value a body served with status 200 for that
\* URL; a call with caching enabled for a URL in the cache returns the stored
\* value and issues no request
C25_CacheHoldsServedProfiles ==
    /\ \A u \in DOMAIN api_cache :
          /\ u \in ProfileUrls
          /\ api_cache[u] \in served
          /\ api_cache[u].of = u
    /\ (fetch_pc # "idle" /\ use_cache /\ url \in DOMAIN cache_before) =>
          /\ fetch_pc = "cached"
          /\ requests = 0
          /\ fetched = Some(cache_before[url])

\* a second call for a profile the first call cached, answered from the cache
C25_Witness ==
    /\ calls = 2
    /\ fetch_pc = "cached"
    /\ url \in ProfileUrls
    /\ requests = 0
    /\ fetched = Some([of |-> url, rev |-> 2])

FetchReturnsAsStated ==
    /\ requests <= retries
    /\ fetch_pc = "loop" => answer.kind \in {"none", "forbidden", "http_error", "exception"}
    /\ fetch_pc = "body" =>
          /\ answer.kind = "json"
          /\ fetched = Some(answer.body)
          /\ requests = attempt + 1
    /\ answer.kind = "json" => fetch_pc = "body"
    /\ fetch_pc = "parse_error" =>
          /\ answer.kind = "bad_json"
          /\ fetched = Absent
          /\ requests = attempt + 1
          /\ api_cache = cache_before
    /\ answer.kind = "bad_json" => fetch_pc = "parse_error"
    /\ fetch_pc = "exhausted" =>
          /\ requests = retries
          /\ attempt = retries
          /\ fetched = Absent
          /\ api_cache = cache_before

\* C26: fetch_json ends after at most `retries` requests: with the body at the
\* first 200 that parses, with None at once at a 200 that does not parse, and
\* with None after `retries` failed attempts, the cache not written
C26_EndsWithinRetries ==
    /\ []FetchReturnsAsStated
    /\ (fetch_pc = "loop") ~> Returned

\* a 200 that does not parse ends the call at its first request, with two
\* tries left
C26_Witness ==
    /\ fetch_pc = "parse_error"
    /\ retries = 3
    /\ requests = 1
    /\ fetched = Absent

(***************************************************************************)
(* The claims about fetch_player_games                                     *)
(***************************************************************************)
Involves(g, p) ==
    str_lower(g.white.username) = str_lower(p) \/ str_lower(g.black.username) = str_lower(p)

\* C24: every record fetch_player_games returns, by the archives or by the
\* month-by-month fallback, is dated within [since, until], comes from a game
\* the player played as white or black, and has a result of 0, 0.5 or 1
C24_RecordsInWindowOfPlayer ==
    games_pc = "returned" =>
        \A k \in 1..Len(records) :
            /\ DateLE(since, utc_date(records[k].ts))
            /\ DateLE(utc_date(records[k].ts), until)
            /\ records[k].result2 \in {0, 1, 2}
            /\ records[k].me = str_lower(account)
            /\ \E g \in AllGames :
                  /\ g.url = records[k].url
                  /\ Involves(g, account)
                  /\ records[k].ts = (IF g.end_time # Absent THEN g.end_time[1]
                                      ELSE IF g.start_time # Absent THEN g.start_time[1] ELSE 0)

\* the month-by-month fallback, until = 2025-01-15: the draw that ended at
\* 23:59:59 of that day is returned, the loss that ended a second later is not
C24_Witness ==
    /\ games_pc = "returned"
    /\ path = "manual_no_archives"
    /\ until = Date(2025, 1, 15)
    /\ \E k \in 1..Len(records) : records[k].url = "g2" /\ records[k].result2 = 1
    /\ \A k \in 1..Len(records) : records[k].url # "g3"
    /\ provider[January] = Json("games", << GameWin, GameDraw, GameLoss >>)

\* C29: verbose changes the logging only: fetch_player_games returns the same
\* records with verbose on and off, also when the archives listing is not
\* empty and none of the wanted months yields a game
C29_Claimed ==
    games_pc \in {"returned", "raised"} =>
        LET other == fetch_player_games(account, since, until, ~verbose, include_unrated,
                                        {"blitz"}, provider)
        IN  /\ other.raised = (games_pc = "raised")
            /\ other.records = records


====
